---- MODULE Spec2Model ----
(***************************************************************************)
(* outpack_server: the repository engine.                                  *)
(*                                                                         *)
(* The repository is a directory tree; the model keeps the three parts of  *)
(* it the engine writes: .outpack/files (blobs and in-flight upload temp   *)
(* files), .outpack/metadata/<id> and .outpack/location/local/<id>.        *)
(* Every HTTP request is a task; a task's filesystem calls interleave      *)
(* with those of the other tasks, so every filesystem call that reads or   *)
(* writes shared state is one step.                                        *)
(***************************************************************************)
EXTENDS Integers, FiniteSets, Sequences, TLC

\* the wall clock runs from 0 to MaxTime (milliseconds, utils.rs time_as_num)
MaxTime == 1

\* request tasks running concurrently
Procs == {"p1", "p2"}

\* a path that does not exist, and a file that exists with no bytes in it
Absent == "absent"
Empty == ""

\* upload bodies
Data == {"x", "y"}

(***************************************************************************)
(* hash module                                                             *)
(***************************************************************************)

\* a hash string with no ':' separator
BadHash == "badhash"

\* hash_data(data, Sha256).to_string(): "<algo>:<hex>", a digest without collisions
HashData(bytes) == "sha256:" \o bytes

\* a hash string whose right side is not hex of the algorithm's length
BadHex == "sha256:zz"

\* a hash string whose right side is hex, shorter than a sha256 digest: the
\* hash of returns_404_if_file_not_found (can_get_path and
\* put_file_validates_hash_match use such hashes too); file_path accepts it
ShortHex == "sha256:123456"

\* str::parse::<Hash>: fails without the separator or without valid hex; the
\* length of the right side is not checked
HashParses(h) == h \notin {BadHash, BadHex}

\* the message of a hash that does not parse
InvalidHashDetail(h) == "Invalid hash format '" \o h \o "'"

\* hash_data(data, algorithm).to_string()
HashDataWith(bytes, alg) == alg \o ":" \o bytes

\* the md5 hashes of a blob and of a document
Md5Hashes == {HashDataWith("x", "md5"), HashDataWith("A1", "md5")}

\* Hash.algorithm of a hash string that parses
HashAlgorithmOf(h) == IF h \in Md5Hashes THEN "md5" ELSE "sha256"

\* validate_hash_data / validate_hash_file: parse the expected hash, digest
\* the bytes with its algorithm, compare
ValidateHash(bytes, expected) ==
  IF ~HashParses(expected) THEN "InvalidHashFormat"
  ELSE IF HashDataWith(bytes, HashAlgorithmOf(expected)) = expected THEN "Ok"
  ELSE "HashMismatch"

(***************************************************************************)
(* packet metadata documents                                               *)
(***************************************************************************)

Ids == {"a", "b"}

\* a well-formed id no packet has, and a string ID_REG does not match
Unstored == "c"
BadId == "bad-id"

\* is_packet_str: ID_REG.is_match(name)
IsPacketStr(s) == s \in Ids \cup {Unstored}

\* the file names metadata/ and location/local/ can hold: a file is named by
\* the id field of its document, whatever that text is
Names == Ids \cup {BadId}

\* raw documents as the client sends them: two bodies for packet a (one with
\* no files, one with a file), one for b (a file and a dependency on a)
RawDocs == {"A1", "A2", "B1"}

\* a document whose id field is a string ID_REG does not match
BadIdDoc == "X1"

\* a body that is not JSON
NotJson == "{"

\* serde_json::from_str::<Packet>: the structural fields of a document
ParsePacket(raw) ==
  CASE raw = "A1" -> [id |-> "a", files |-> {}, depends |-> {}]
    [] raw = "A2" -> [id |-> "a", files |-> {HashData("x")}, depends |-> {}]
    [] raw = "B1" -> [id |-> "b", files |-> {HashData("x")}, depends |-> {"a"}]
    [] raw = BadIdDoc -> [id |-> BadId, files |-> {}, depends |-> {}]

Parses(raw) == raw \in RawDocs \cup {BadIdDoc}

(***************************************************************************)
(* state                                                                   *)
(***************************************************************************)

VARIABLES
  files,     \* .outpack/files: name -> content, blobs and upload temp files
  metadata,  \* .outpack/metadata: id -> raw document
  local,     \* .outpack/location/local: id -> ledger entry file
  now,       \* the wall clock
  pc,        \* each task's position in its handler
  call,      \* each task's request and locals
  result,    \* each task's last outcome
  body,      \* each task's last response body (reads)
  wrote,     \* history: the task's current call has changed blobs, metadata or the ledger
  cache,     \* METADATA_CACHE: the process-wide cache of parsed documents, by path
  http,      \* the middleware around the handlers: metrics registry, request ids, responses
  root       \* the root directory: .outpack, config.json, the directories, the server built for it

vars == <<files, metadata, local, now, pc, call, result, body, wrote, cache, http, root>>

\* blobs are named by their hash: files/<algo>/<hex[0:2]>/<hex[2:]>
BlobHashes == {HashData(d) : d \in Data}

\* NamedTempFile::new_in(<root>/.outpack/files): each task's upload temp file
UploadName(p) == "tmp-" \o p

FileNames ==
  BlobHashes \cup {ShortHex, HashDataWith("x", "md5")} \cup {UploadName(p) : p \in Procs}

\* ledger entry files: LocationEntry {packet, time, hash} under the packet's id
NoEntry == [st |-> "absent", time |-> 0, hash |-> ""]
EmptyEntry == [st |-> "empty", time |-> 0, hash |-> ""]
Entry(t, h) == [st |-> "full", time |-> t, hash |-> h]

\* a task's request and locals: the operation, its body (arg) and hash, the
\* time read from the clock, the branch the call returned through (via),
\* whether the blob was there when the upload began (had), the clock when
\* a running add_packet was called (start), and whether the client sends
\* the request again after the call was interrupted (retry)
NoCall ==
  [op |-> "none", arg |-> "", hash |-> "", time |-> 0, via |-> "", had |-> FALSE,
   start |-> 0, retry |-> FALSE]

(***************************************************************************)
(* responses.rs, api.rs, metrics.rs: the HTTP surface                      *)
(***************************************************************************)

\* the io::ErrorKind an outcome reaches the response with: hash errors are
\* InvalidInput, serde_json's end-of-input errors are UnexpectedEof, the
\* fallback's error is NotFound, everything else is Other
ErrorKind(res) ==
  CASE res \in {"NotFound", "NoRoute"} -> "NotFound"
    [] res \in {"InvalidInput", "MissingFiles", "MissingDeps"} -> "InvalidInput"
    [] res \in {"InvalidHashFormat", "HashMismatch", "InvalidHashAlgorithm"} -> "InvalidInput"
    [] res = "InvalidData" -> "UnexpectedEof"
    [] res = "AlreadyExists" -> "AlreadyExists"
    [] OTHER -> "Other"

\* OutpackError::into_response: the status of an error kind
StatusOf(kind) ==
  CASE kind = "NotFound" -> 404
    [] kind = "InvalidInput" -> 400
    [] kind = "UnexpectedEof" -> 400
    [] kind = "AlreadyExists" -> 409
    [] OTHER -> 500

Statuses == {200, 400, 404, 409, 500}

\* a request or a response without an x-request-id header
NoHeader == "none"

\* no response yet
NoResponse ==
  [status |-> 0, envelope |-> "none", data |-> "", errors |-> <<>>, rid |-> NoHeader]

\* OutpackError::into_response: the failure envelope, data null and the
\* error as the one element of errors
IntoResponse(err) ==
  [status |-> StatusOf(err.kind), envelope |-> "failure", data |-> "null",
   errors |-> <<[error |-> err.error, detail |-> err.detail]>>, rid |-> NoHeader]

\* mutant: the panic answered as a missing resource
InternalErrorNotFound ==
  IntoResponse([error |-> "NOT_FOUND", detail |-> "Something went wrong",
                kind |-> "NotFound"])

\* internal_error: the response CatchPanicLayer makes of a panic
InternalError ==
  IntoResponse([error |-> "UNKNOWN_ERROR", detail |-> "Something went wrong",
                kind |-> "Other"])

\* not_found: the fallback's error
NotFoundError ==
  [error |-> "NOT_FOUND", detail |-> "This route does not exist", kind |-> "NotFound"]

\* the handlers and the routes api() binds them to
Ops ==
  {"put_file", "get_file", "get_raw", "get_by_id", "add_packet", "list",
   "read_locations", "missing_ids", "missing_files", "checksum", "fallback"}

MethodOf(op) ==
  IF op \in {"put_file", "add_packet", "missing_ids", "missing_files"} THEN "POST" ELSE "GET"

\* the request finds no route: no MatchedPath extension
NoMatch == "*"

\* MatchedPath: the route's template
MatchedPath(op) ==
  CASE op \in {"put_file", "get_file"} -> "/file/:hash"
    [] op = "get_raw" -> "/metadata/:id/text"
    [] op = "get_by_id" -> "/metadata/:id/json"
    [] op = "add_packet" -> "/packet/:hash"
    [] op = "list" -> "/packit/metadata"
    [] op = "read_locations" -> "/metadata/list"
    [] op = "missing_ids" -> "/packets/missing"
    [] op = "missing_files" -> "/files/missing"
    [] op = "checksum" -> "/checksum"
    [] OTHER -> NoMatch

\* the label values of a request: endpoint and method
Label(op) == MethodOf(op) \o " " \o MatchedPath(op)

Labels == {Label(op) : op \in Ops}

\* the x-request-id headers clients send
RequestIdHeaders == {NoHeader, "foobar123"}

\* MakeRequestUuid: a UUID no earlier request was given
Uuid(n) == "uuid-" \o ToString(n)

\* a task's request as the middleware sees it: the header the client sent,
\* the header after SetRequestIdLayer, the request id of the log span, and
\* the request's number in order of arrival
NoRequest == [hdr |-> NoHeader, rid |-> NoHeader, span |-> NoHeader, n |-> 0]

\* HttpMetrics::new: no series has a value; no request has arrived
NoHttp ==
  [inflight |-> [l \in Labels |-> 0],
   total |-> [k \in Labels \X Statuses |-> 0],
   req |-> [p \in Procs |-> NoRequest],
   resp |-> [p \in Procs |-> NoResponse],
   uuids |-> 0,
   seen |-> 0]

(***************************************************************************)
(* config.rs, init.rs, api.rs: the root and the start of the server        *)
(***************************************************************************)

\* path_archive: None
NoArchive == "<none>"

Archives == {NoArchive, "archive"}

\* hash::HashAlgorithm as config.json may name it
ConfigAlgorithms == {"sha256", "sha1", "md5"}

\* config::Core
Core(alg, archive, store, tree) ==
  [hash_algorithm |-> alg, path_archive |-> archive,
   use_file_store |-> store, require_complete_tree |-> tree]

Cores ==
  {Core(alg, archive, store, tree) :
     alg \in ConfigAlgorithms, archive \in Archives, store \in BOOLEAN, tree \in BOOLEAN}

\* Config::new: a configuration needs some storage; the algorithm is sha256
ConfigNew(archive, store, tree) ==
  IF ~store /\ archive = NoArchive
  THEN [ok |-> FALSE, core |-> Core("sha256", archive, store, tree),
        err |-> "If 'path_archive' is None, then use_file_store must be true"]
  ELSE [ok |-> TRUE, core |-> Core("sha256", archive, store, tree), err |-> ""]

\* .outpack/config.json: absent, bytes serde_json does not read as a Config,
\* or a Config
NoConfig == [st |-> "absent", core |-> Core("sha256", NoArchive, TRUE, TRUE)]
GarbledConfig == [st |-> "garbled", core |-> Core("sha256", NoArchive, TRUE, TRUE)]
ConfigFile(core) == [st |-> "ok", core |-> core]

ConfigFiles == {NoConfig, GarbledConfig} \cup {ConfigFile(c) : c \in Cores}

\* read_config: fs::File::open(path)?, serde_json::from_reader(config_file)?
ReadConfig(r) ==
  IF r.config.st = "absent" THEN [ok |-> FALSE, core |-> r.config.core, err |-> "NotFound"]
  ELSE IF r.config.st = "garbled" THEN [ok |-> FALSE, core |-> r.config.core, err |-> "InvalidData"]
  ELSE [ok |-> TRUE, core |-> r.config.core, err |-> ""]

\* the path the server or the initialisation is given
RootName == "root"

\* the root: whether .outpack exists, config.json, the directories made,
\* what api(root) returned and what outpack_init returned
NoRoot ==
  [outpack |-> FALSE, config |-> NoConfig, dirs |-> {}, server |-> "none", init |-> "none"]

\* the root of a running server
ServedRoot ==
  [outpack |-> TRUE, config |-> ConfigFile(Core("sha256", NoArchive, TRUE, TRUE)),
   dirs |-> {"location/local", "metadata", "files"}, server |-> "Router", init |-> "Ok"]

FileStoreMessage == "Outpack must be configured to use a file store"

CompleteTreeMessage == "Outpack must be configured to require a complete tree"

HashAlgorithmMessage(alg) ==
  "Outpack must be configured to use hash algorithm 'sha256', but you are using '"
    \o alg \o "'"

ArchiveMessage(archive) ==
  "Outpack must be configured to *not* use an archive, but your path_archive is '"
    \o archive \o "'"

\* mutant: the archive rule tested before the others
CheckConfigArchiveFirst(core) ==
  IF core.path_archive # NoArchive THEN ArchiveMessage(core.path_archive)
  ELSE IF ~core.use_file_store THEN FileStoreMessage
  ELSE IF ~core.require_complete_tree THEN CompleteTreeMessage
  ELSE IF core.hash_algorithm # "sha256" THEN HashAlgorithmMessage(core.hash_algorithm)
  ELSE "Ok"

\* check_config
CheckConfig(core) ==
  IF ~core.use_file_store THEN FileStoreMessage
  ELSE IF ~core.require_complete_tree THEN CompleteTreeMessage
  ELSE IF core.hash_algorithm # "sha256" THEN HashAlgorithmMessage(core.hash_algorithm)
  ELSE IF core.path_archive # NoArchive THEN ArchiveMessage(core.path_archive)
  ELSE "Ok"

RootNotFoundMessage == "Outpack root not found at '" \o RootName \o "'"

ReadFailedMessage == "Failed to read outpack config from '" \o RootName \o "'"

\* preflight
Preflight(r) ==
  IF ~r.outpack THEN RootNotFoundMessage
  ELSE IF ~ReadConfig(r).ok THEN ReadFailedMessage
  ELSE CheckConfig(ReadConfig(r).core)

\* api(root): the metrics are registered, preflight(root)? returns its
\* error, otherwise the Router is built and returned
Api ==
  /\ root.server = "none"
  /\ root' = [root EXCEPT !.server =
                IF Preflight(root) = "Ok" THEN "Router" ELSE Preflight(root)]
  /\ UNCHANGED <<files, metadata, local, now, pc, call, result, body, wrote, cache, http>>

ChangedConfigMessage == "Trying to change config on reinitialisation"

\* outpack_init on a path without .outpack: create_dir_all(.outpack),
\* write_config, create_dir_all of location/local, metadata, files (with a
\* file store) and the archive (with one)
CreateRoot(r, core) ==
  [r EXCEPT !.outpack = TRUE,
            !.config = ConfigFile(core),
            !.dirs = {"location/local", "metadata"}
                       \cup (IF core.use_file_store THEN {"files"} ELSE {})
                       \cup (IF core.path_archive # NoArchive THEN {"archive"} ELSE {}),
            !.init = "Ok"]

\* mutant: a changed configuration written over the stored one
OutpackInitOverwrite(archive, store, tree) ==
  /\ LET cfg == ConfigNew(archive, store, tree)
         prev == ReadConfig(root)
     IN root' =
          IF ~cfg.ok THEN [root EXCEPT !.init = cfg.err]
          ELSE IF root.outpack
          THEN IF ~prev.ok THEN [root EXCEPT !.init = prev.err]
               ELSE IF cfg.core # prev.core THEN CreateRoot(root, cfg.core)
               ELSE [root EXCEPT !.init = "Ok"]
          ELSE CreateRoot(root, cfg.core)
  /\ UNCHANGED <<files, metadata, local, now, pc, call, result, body, wrote, cache, http>>

\* outpack_init
OutpackInit(archive, store, tree) ==
  /\ LET cfg == ConfigNew(archive, store, tree)
         prev == ReadConfig(root)
     IN root' =
          IF ~cfg.ok THEN [root EXCEPT !.init = cfg.err]
          ELSE IF root.outpack
          THEN IF ~prev.ok THEN [root EXCEPT !.init = prev.err]
               ELSE IF cfg.core # prev.core THEN [root EXCEPT !.init = ChangedConfigMessage]
               ELSE [root EXCEPT !.init = "Ok"]
          ELSE CreateRoot(root, cfg.core)
  /\ UNCHANGED <<files, metadata, local, now, pc, call, result, body, wrote, cache, http>>

\* the roots a server or an initialisation may be pointed at: a path
\* without .outpack, or one whose .outpack holds any config.json
Roots ==
  {NoRoot} \cup
  {[NoRoot EXCEPT !.outpack = TRUE, !.config = c, !.dirs = {"location/local", "metadata"}] :
     c \in ConfigFiles}

Init ==
  /\ files = [n \in FileNames |-> Absent]
  /\ metadata = [i \in Names |-> Absent]
  /\ local = [i \in Names |-> NoEntry]
  /\ now = 0
  /\ pc = [p \in Procs |-> "done"]
  /\ call = [p \in Procs |-> NoCall]
  /\ result = [p \in Procs |-> "none"]
  /\ body = [p \in Procs |-> Absent]
  /\ wrote = [p \in Procs |-> FALSE]
  /\ cache = [i \in Names |-> Absent]
  /\ http = NoHttp
  /\ root = ServedRoot

\* the handler returns: the response is sent
Return(p, res, b) ==
  /\ pc' = [pc EXCEPT ![p] = "done"]
  /\ result' = [result EXCEPT ![p] = res]
  /\ body' = [body EXCEPT ![p] = b]

Goto(p, label) ==
  /\ pc' = [pc EXCEPT ![p] = label]
  /\ UNCHANGED <<result, body>>

Begin(p, c) ==
  /\ pc[p] = "done"
  /\ call' = [call EXCEPT ![p] = c]

\* task p has finished a call of op
Done(p, op) == pc[p] = "done" /\ call[p].op = op

(***************************************************************************)
(* store.rs                                                                *)
(***************************************************************************)

\* file_exists: stat file_path(root, hash)
FileExists(fs, h) == fs[h] # Absent

\* mutant: a rename that refuses to replace an existing destination
RenameNoReplace(fs, content, h) ==
  IF fs[h] # Absent THEN [fs |-> fs, res |-> "AlreadyExists"]
  ELSE [fs |-> [fs EXCEPT ![h] = content], res |-> "Ok"]

\* fs::rename(temp_path, path): replaces the destination if it exists
Rename(fs, content, h) ==
  [fs |-> [fs EXCEPT ![h] = content], res |-> "Ok"]

\* dropping the Upload (TempPath) and the TempDir removes the temp files
DropUpload(fs, p) == [fs EXCEPT ![UploadName(p)] = Absent]

\* POST /file/<hash>: the Upload extractor streams the body into a
\* NamedTempFile under .outpack/files, then the handler calls put_file
StartPutFile(p, d, h) ==
  /\ Begin(p, [NoCall EXCEPT !.op = "put_file", !.arg = d, !.hash = h,
                 !.had = HashParses(h) /\ FileExists(files, h)])
  /\ files' = [files EXCEPT ![UploadName(p)] = d]
  /\ Goto(p, "pf_validate")
  /\ UNCHANGED <<metadata, local, now, cache>>

\* the bytes of d that have reached the temp file when half the body has
\* been streamed
Partial(d) == d \o "-"

\* Upload::from_request: NamedTempFile::new_in(config.directory) creates the
\* temp file; stream_to_file has copied nothing yet
BeginUpload(p, d, h) ==
  /\ Begin(p, [NoCall EXCEPT !.op = "put_file", !.arg = d, !.hash = h,
                 !.had = HashParses(h) /\ FileExists(files, h)])
  /\ files' = [files EXCEPT ![UploadName(p)] = Empty]
  /\ Goto(p, "up_stream")
  /\ UNCHANGED <<metadata, local, now, cache>>

\* stream_to_file: tokio::io::copy has written the first chunks of the body
StreamChunk(p) ==
  /\ pc[p] = "up_stream"
  /\ files' = [files EXCEPT ![UploadName(p)] = Partial(call[p].arg)]
  /\ Goto(p, "up_more")
  /\ UNCHANGED <<metadata, local, now, call, cache>>

\* stream_to_file: the rest of the body, flush; from_request returns the
\* Upload and api::add_file calls put_file
StreamEnd(p) ==
  /\ pc[p] = "up_more"
  /\ files' = [files EXCEPT ![UploadName(p)] = call[p].arg]
  /\ Goto(p, "pf_validate")
  /\ UNCHANGED <<metadata, local, now, call, cache>>

\* mutant: the temp file outlives the failed extraction
UploadAbortKeeps(p) ==
  /\ pc[p] \in {"up_stream", "up_more"}
  /\ Return(p, "StreamError", Absent)
  /\ UNCHANGED <<files, metadata, local, now, call, cache>>

\* the body stream fails or the client disconnects: stream_to_file returns
\* the error (or the request future is dropped), the NamedTempFile is
\* dropped and the handler is not called
UploadAbort(p) ==
  /\ pc[p] \in {"up_stream", "up_more"}
  /\ files' = DropUpload(files, p)
  /\ Return(p, "StreamError", Absent)
  /\ UNCHANGED <<metadata, local, now, call, cache>>

\* mutant: put_file without validate_hash_file (the hash is still parsed
\* for file_path)
PutFileNoValidate(p) ==
  /\ pc[p] = "pf_validate"
  /\ IF HashParses(call[p].hash)
     THEN /\ Goto(p, "pf_exists")
          /\ UNCHANGED files
     ELSE /\ files' = DropUpload(files, p)
          /\ Return(p, "InvalidHashFormat", Absent)
  /\ UNCHANGED <<metadata, local, now, call, cache>>

\* mutant: put_file moving the upload to its final path before validating it
PutFileValidateLate(p) ==
  /\ pc[p] = "pf_validate"
  /\ LET v == ValidateHash(call[p].arg, call[p].hash) IN
       IF v = "Ok"
       THEN /\ Goto(p, "pf_exists")
            /\ UNCHANGED files
       ELSE /\ files' = IF HashParses(call[p].hash)
                        THEN DropUpload([files EXCEPT ![call[p].hash] = call[p].arg], p)
                        ELSE DropUpload(files, p)
            /\ Return(p, v, Absent)
  /\ UNCHANGED <<metadata, local, now, call, cache>>

\* put_file: tempdir_in(root), copy_to(temp_path), validate_hash_file
PutFileValidate(p) ==
  /\ pc[p] = "pf_validate"
  /\ LET v == ValidateHash(call[p].arg, call[p].hash) IN
       IF v = "Ok"
       THEN /\ Goto(p, "pf_exists")
            /\ UNCHANGED files
       ELSE /\ files' = DropUpload(files, p)
            /\ Return(p, v, Absent)
  /\ UNCHANGED <<metadata, local, now, call, cache>>

\* mutant: put_file refusing a blob that is already stored
PutFileExistsFails(p) ==
  /\ pc[p] = "pf_exists"
  /\ IF FileExists(files, call[p].hash)
     THEN /\ files' = DropUpload(files, p)
          /\ call' = [call EXCEPT ![p].via = "exists"]
          /\ Return(p, "AlreadyExists", Absent)
     ELSE /\ Goto(p, "pf_rename")
          /\ UNCHANGED <<files, call>>
  /\ UNCHANGED <<metadata, local, now, cache>>

\* put_file: file_path, then if !file_exists(root, hash)
PutFileExists(p) ==
  /\ pc[p] = "pf_exists"
  /\ IF FileExists(files, call[p].hash)
     THEN /\ files' = DropUpload(files, p)
          /\ call' = [call EXCEPT ![p].via = "exists"]
          /\ Return(p, "Ok", Absent)
     ELSE /\ Goto(p, "pf_rename")
          /\ UNCHANGED <<files, call>>
  /\ UNCHANGED <<metadata, local, now, cache>>

\* put_file: create_dir_all(parent), fs::rename(temp_path, path)
PutFileRename(p) ==
  /\ pc[p] = "pf_rename"
  /\ LET r == Rename(files, call[p].arg, call[p].hash) IN
       /\ files' = DropUpload(r.fs, p)
       /\ call' = [call EXCEPT ![p].via = "renamed"]
       /\ Return(p, r.res, Absent)
  /\ UNCHANGED <<metadata, local, now, cache>>

(***************************************************************************)
(* metadata.rs, location.rs, utils.rs: ingestion                           *)
(***************************************************************************)

\* mutant: get_missing_files with the arms of its match swapped
MissingFilesSwapped(fs, wanted) == {h \in wanted : FileExists(fs, h)}

\* get_missing_files: the wanted hashes file_exists says are not there
MissingFiles(fs, wanted) == {h \in wanted : ~FileExists(fs, h)}

\* get_ids(root, unpacked = true): the file names under location/local
UnpackedIds(lc) == {i \in Names : lc[i].st # "absent"}

\* get_ids(root, unpacked = false): the file names under metadata
MetadataIds(md) == {i \in Names : md[i] # Absent}

\* mutant: check_missing_dependencies asking for the ids with metadata
\* (unpacked = false)
MissingIdsOfMetadata(md, lc, wanted, unpacked) == wanted \ MetadataIds(md)

\* get_missing_ids: wanted \ known
MissingIds(md, lc, wanted, unpacked) ==
  wanted \ (IF unpacked THEN UnpackedIds(lc) ELSE MetadataIds(md))

\* POST /packet/<hash>: api::add_packet parses the hash, metadata::add_packet
\* parses the document
StartAddPacket(p, raw, h) ==
  /\ Begin(p, [NoCall EXCEPT !.op = "add_packet", !.arg = raw, !.hash = h,
                 !.start = IF HashParses(h) /\ Parses(raw) THEN now ELSE 0])
  /\ IF ~HashParses(h) THEN Return(p, "InvalidHashFormat", Absent)
     ELSE IF ~Parses(raw) THEN Return(p, "InvalidData", Absent)
     ELSE Goto(p, "ap_files")
  /\ UNCHANGED <<files, metadata, local, now, cache>>

\* add_packet: check_missing_files
CheckMissingFiles(p) ==
  /\ pc[p] = "ap_files"
  /\ IF MissingFiles(files, ParsePacket(call[p].arg).files) # {}
     THEN /\ Return(p, "MissingFiles", Absent)
          /\ call' = [call EXCEPT ![p].start = 0]
     ELSE /\ Goto(p, "ap_deps")
          /\ UNCHANGED call
  /\ UNCHANGED <<files, metadata, local, now, cache>>

\* add_packet: check_missing_dependencies
CheckMissingDependencies(p) ==
  /\ pc[p] = "ap_deps"
  /\ IF MissingIds(metadata, local, ParsePacket(call[p].arg).depends, TRUE) # {}
     THEN /\ Return(p, "MissingDeps", Absent)
          /\ call' = [call EXCEPT ![p].start = 0]
     ELSE /\ Goto(p, "ap_exists")
          /\ UNCHANGED call
  /\ UNCHANGED <<files, metadata, local, now, cache>>

\* mutant: add_parsed_metadata creating the file before it validates the hash
AddParsedMetadataLateValidate(p) ==
  /\ pc[p] = "ap_exists"
  /\ LET v == ValidateHash(call[p].arg, call[p].hash)
         id == ParsePacket(call[p].arg).id IN
       /\ metadata' = IF metadata[id] = Absent
                       THEN [metadata EXCEPT ![id] = Empty] ELSE metadata
       /\ IF v # "Ok" THEN Return(p, v, Absent)
          ELSE IF metadata[id] # Absent THEN Goto(p, "mk_open")
          ELSE Goto(p, "ap_write")
       /\ call' = IF v # "Ok" THEN [call EXCEPT ![p].start = 0] ELSE call
  /\ UNCHANGED <<files, local, now, cache>>

\* mutant: add_packet going on to mark the packet known without the
\* document having been written
AddParsedMetadataNoWrite(p) ==
  /\ pc[p] = "ap_exists"
  /\ LET v == ValidateHash(call[p].arg, call[p].hash) IN
       /\ IF v # "Ok" THEN Return(p, v, Absent) ELSE Goto(p, "mk_open")
       /\ call' = IF v # "Ok" THEN [call EXCEPT ![p].start = 0] ELSE call
  /\ UNCHANGED <<files, metadata, local, now, cache>>

\* add_parsed_metadata: validate_hash_data, then if !path.exists()
AddParsedMetadata(p) ==
  /\ pc[p] = "ap_exists"
  /\ LET v == ValidateHash(call[p].arg, call[p].hash) IN
       /\ IF v # "Ok" THEN Return(p, v, Absent)
          ELSE IF metadata[ParsePacket(call[p].arg).id] # Absent THEN Goto(p, "mk_open")
          ELSE Goto(p, "ap_create")
       /\ call' = IF v # "Ok" THEN [call EXCEPT ![p].start = 0] ELSE call
  /\ UNCHANGED <<files, metadata, local, now, cache>>

\* add_parsed_metadata: fs::File::create(&path) creates the file or truncates it
MetadataCreate(p) ==
  /\ pc[p] = "ap_create"
  /\ metadata' = [metadata EXCEPT ![ParsePacket(call[p].arg).id] = Empty]
  /\ Goto(p, "ap_write")
  /\ UNCHANGED <<files, local, now, call, cache>>

\* add_parsed_metadata: fs::write(path, data) truncates and writes the bytes
MetadataWrite(p) ==
  /\ pc[p] = "ap_write"
  /\ metadata' = [metadata EXCEPT ![ParsePacket(call[p].arg).id] = call[p].arg]
  /\ Goto(p, "mk_open")
  /\ UNCHANGED <<files, local, now, call, cache>>

\* mutant: the file opened with create(true).truncate(true): the open
\* succeeds on an existing file and empties it
OpenCreateTruncate(f) == [ok |-> TRUE, f |-> EmptyEntry]

\* write_file_idempotent: OpenOptions::new().write(true).create_new(true)
\* .open(path): creates the file empty, or fails if the path exists
OpenCreateNew(f) ==
  IF f.st = "absent" THEN [ok |-> TRUE, f |-> EmptyEntry]
  ELSE [ok |-> FALSE, f |-> f]

\* mutant: the comparison ignores the file's bytes
ContentsDifferNever(f, contents) == FALSE

\* write_file_idempotent: fs::read(path)? != contents
ContentsDiffer(f, contents) == f # contents

\* mark_packet_known: the bytes of the entry, {packet, time, hash}
LedgerContents(p) == Entry(call[p].time, call[p].hash)

\* mutant: the time narrowed to a coarser unit, rounding down
SystemTimeCoarse == (now \div 2) * 2

\* add_packet: let time = SystemTime::now()
SystemTimeNow == now

\* add_packet: SystemTime::now(); mark_packet_known -> write_file_idempotent:
\* the exclusive open
MarkOpen(p) ==
  /\ pc[p] = "mk_open"
  /\ call' = [call EXCEPT ![p].time = SystemTimeNow]
  /\ LET id == ParsePacket(call[p].arg).id
         o == OpenCreateNew(local[id]) IN
       /\ local' = [local EXCEPT ![id] = o.f]
       /\ IF o.ok THEN Goto(p, "mk_write") ELSE Goto(p, "mk_read")
  /\ UNCHANGED <<files, metadata, now, cache>>

\* write_file_idempotent: f.write_all(contents)
MarkWrite(p) ==
  /\ pc[p] = "mk_write"
  /\ local' = [local EXCEPT ![ParsePacket(call[p].arg).id] = LedgerContents(p)]
  /\ call' = [call EXCEPT ![p].via = "created", ![p].time = 0, ![p].start = 0]
  /\ Return(p, "Ok", Absent)
  /\ UNCHANGED <<files, metadata, now, cache>>

\* write_file_idempotent: the file exists; fs::read(path)? != contents
MarkRead(p) ==
  /\ pc[p] = "mk_read"
  /\ call' = [call EXCEPT ![p].via = "compared", ![p].time = 0, ![p].start = 0]
  /\ IF ContentsDiffer(local[ParsePacket(call[p].arg).id], LedgerContents(p))
     THEN Return(p, "AlreadyExists", Absent)
     ELSE Return(p, "Ok", Absent)
  /\ UNCHANGED <<files, metadata, local, now, cache>>

(***************************************************************************)
(* interruption                                                            *)
(***************************************************************************)

\* add_packet is interrupted after its checks: a filesystem call returns an
\* error, which `?` hands to the caller, or the process dies; what the call
\* has put on disk stays
Interrupt(p) ==
  /\ pc[p] \in {"ap_exists", "ap_create", "ap_write", "mk_open", "mk_write", "mk_read"}
  /\ ~call[p].retry
  /\ call' = [call EXCEPT ![p].time = 0, ![p].start = 0]
  /\ Return(p, "Interrupted", Absent)
  /\ UNCHANGED <<files, metadata, local, now, cache>>

\* the client sends the interrupted request again: POST /packet/<hash> with
\* the same body and hash
RetryAddPacket(p) ==
  /\ Done(p, "add_packet")
  /\ result[p] = "Interrupted"
  /\ Begin(p, [NoCall EXCEPT !.op = "add_packet", !.arg = call[p].arg,
                 !.hash = call[p].hash, !.start = now, !.retry = TRUE])
  /\ Goto(p, "ap_files")
  /\ UNCHANGED <<files, metadata, local, now, cache>>

(***************************************************************************)
(* readers                                                                 *)
(***************************************************************************)

\* the <id> segment of a request path, percent-decoded by the Path
\* extractor: the ids of the packets, a well-formed id no packet has, a
\* string that is no packet id, and the parent directory
DotDot == ".."

RequestIds == Ids \cup {Unstored, BadId, DotDot}

\* what a path names when it is a directory
Directory == "/"

\* get_path: root/.outpack/metadata/<id>, and what the filesystem has there
GetPath(md, id) ==
  IF id \in Names THEN md[id]
  ELSE IF id = DotDot THEN Directory
  ELSE Absent

NotFoundDetail(id) == "packet with id '" \o id \o "' does not exist"

\* get_metadata_file: get_path, then if !path.exists()
GetMetadataFile(md, id) ==
  IF GetPath(md, id) = Absent
  THEN [res |-> "NotFound", detail |-> NotFoundDetail(id)]
  ELSE [res |-> "Ok", detail |-> ""]

\* GET /metadata/<id>/text: get_metadata_text, fs::read_to_string
GetMetadataText(p, id) ==
  /\ Begin(p, [NoCall EXCEPT !.op = "get_raw", !.arg = id])
  /\ LET f == GetMetadataFile(metadata, id) IN
       IF f.res # "Ok" THEN Return(p, f.res, f.detail)
       ELSE IF GetPath(metadata, id) = Directory THEN Return(p, "IsADirectory", Absent)
       ELSE Return(p, "Ok", GetPath(metadata, id))
  /\ UNCHANGED <<files, metadata, local, now, cache>>

\* GET /metadata/<id>/json: get_metadata_by_id opens the file and parses it
\* as JSON
GetMetadataById(p, id) ==
  /\ Begin(p, [NoCall EXCEPT !.op = "get_by_id", !.arg = id])
  /\ LET f == GetMetadataFile(metadata, id) IN
       IF f.res # "Ok" THEN Return(p, f.res, f.detail)
       ELSE IF GetPath(metadata, id) = Directory THEN Return(p, "IsADirectory", Absent)
       ELSE IF GetPath(metadata, id) = Empty THEN Return(p, "InvalidData", Absent)
       ELSE Return(p, "Ok", GetPath(metadata, id))
  /\ UNCHANGED <<files, metadata, local, now, cache>>

\* GET /metadata/list: read_locations parses every entry file as JSON
ReadLocations(p) ==
  /\ Begin(p, [NoCall EXCEPT !.op = "read_locations"])
  /\ IF \E i \in Names : local[i].st = "empty"
     THEN Return(p, "InvalidData", Absent)
     ELSE Return(p, "Ok", Absent)
  /\ UNCHANGED <<files, metadata, local, now, cache>>

\* GET /file/<hash>: file_path, OutpackFile::open
GetFile(p, h) ==
  /\ Begin(p, [NoCall EXCEPT !.op = "get_file", !.hash = h])
  /\ IF ~HashParses(h) THEN Return(p, "InvalidHashFormat", InvalidHashDetail(h))
     ELSE IF ~FileExists(files, h)
     THEN Return(p, "NotFound", "hash '" \o h \o "' not found")
     ELSE Return(p, "Ok", files[h])
  /\ UNCHANGED <<files, metadata, local, now, cache>>

\* get_metadata_from_date's from: None, or Some(time)
NoFrom == [some |-> FALSE, time |-> 0]

Froms == {NoFrom} \cup {[some |-> TRUE, time |-> t] : t \in 0..MaxTime}

\* mutant: the entries written at the time asked for are listed too
ListedIdsInclusive(md, lc, from) ==
  {i \in MetadataIds(md) :
     IsPacketStr(i) /\ (~from.some \/ (lc[i].st = "full" /\ lc[i].time >= from.time))}

\* get_metadata_from_date: the files under metadata/ that utils::is_packet
\* accepts; with Some(time), those whose ledger entry has a later time
ListedIds(md, lc, from) ==
  {i \in MetadataIds(md) :
     IsPacketStr(i) /\ (~from.some \/ (lc[i].st = "full" /\ lc[i].time > from.time))}

\* read_metadata (cached_result!): the cached value for the path if there is
\* one, else the file's bytes, parsed
ReadMetadata(md, ch, i) == IF ch[i] # Absent THEN ch[i] ELSE md[i]

\* the packets in the response body, sorted by id
IdSeq == <<"a", "b">>

ListString(docs) ==
  (IF docs[IdSeq[1]] = Absent THEN "" ELSE docs[IdSeq[1]])
    \o "," \o (IF docs[IdSeq[2]] = Absent THEN "" ELSE docs[IdSeq[2]])

\* get_metadata_from_date: read_locations (with Some(time)), then
\* read_metadata of every listed file, collected into one result
ListOutcome(md, lc, ch, from) ==
  LET ids == ListedIds(md, lc, from)
      docs == [i \in Ids |-> IF i \in ids THEN ReadMetadata(md, ch, i) ELSE Absent]
  IN IF from.some /\ (\E i \in Names : lc[i].st = "empty")
     THEN [res |-> "InvalidData", body |-> Absent, docs |-> [i \in Ids |-> Absent]]
     ELSE IF \E i \in ids : docs[i] = Empty
     THEN [res |-> "InvalidData", body |-> Absent, docs |-> docs]
     ELSE [res |-> "Ok", body |-> ListString(docs), docs |-> docs]

\* an empty METADATA_CACHE
NoCache == [i \in Names |-> Absent]

\* GET /packit/metadata: get_metadata_from_date. Every document read is put
\* in the cache; when a file fails to parse, the files read before it (in
\* read_dir order) have been cached
GetMetadataFromDate(p, from) ==
  /\ Begin(p, [NoCall EXCEPT !.op = "list"])
  /\ LET o == ListOutcome(metadata, local, cache, from)
         good == {i \in Ids : o.docs[i] \notin {Absent, Empty}} IN
       /\ Return(p, o.res, o.body)
       /\ IF o.res = "Ok"
          THEN cache' = [i \in Names |-> IF i \in good THEN o.docs[i] ELSE cache[i]]
          ELSE \E S \in SUBSET good :
                 cache' = [i \in Names |-> IF i \in S THEN o.docs[i] ELSE cache[i]]
  /\ UNCHANGED <<files, metadata, local, now>>

(***************************************************************************)
(* queries                                                                 *)
(***************************************************************************)

\* ids as clients send them: the ids above, and the id of packet a with
\* whitespace around it
Padded == " a "

WantedIds == Ids \cup {Unstored, Padded, BadId}

\* str::trim
Trim(s) == IF s = Padded THEN "a" ELSE s

\* mutant: the id validated as it was sent
GetValidIdAsSent(id) == [ok |-> IsPacketStr(id), id |-> id]

\* get_valid_id: trim, then is_packet_str
GetValidId(id) == [ok |-> IsPacketStr(Trim(id)), id |-> Trim(id)]

\* the orders a collection's elements can be enumerated in (HashSet
\* iteration, read_dir)
Orders(S) ==
  {o \in [1..Cardinality(S) -> S] : \A j, k \in DOMAIN o : o[j] = o[k] => j = k}

\* a JSON array of strings, as text
RECURSIVE JoinList(_)
JoinList(seq) ==
  IF seq = <<>> THEN "" ELSE Head(seq) \o ";" \o JoinList(Tail(seq))

\* the lists of up to MaxWanted strings a request body carries
MaxWanted == 2

ListsOf(S) == UNION {[1..n -> S] : n \in 0..MaxWanted}

InvalidIdDetail(id) == "Invalid packet id '" \o id \o "'"

\* get_missing_ids: known from get_ids, wanted collected from get_valid_id
\* into io::Result<HashSet>: the first invalid id is the error of the call
GetMissingIds(md, lc, wanted, unpacked) ==
  LET valid == [k \in DOMAIN wanted |-> GetValidId(wanted[k])]
      bad == {k \in DOMAIN wanted : ~valid[k].ok}
  IN IF bad # {}
     THEN [res |-> "InvalidInput", ids |-> {},
           detail |-> InvalidIdDetail(wanted[CHOOSE k \in bad : \A j \in bad : k <= j])]
     ELSE [res |-> "Ok", detail |-> "",
           ids |-> MissingIds(md, lc, {valid[k].id : k \in DOMAIN wanted}, unpacked)]

\* POST /packets/missing: get_missing_packets; the difference of the two
\* HashSets is collected into a Vec in iteration order
GetMissingPackets(p, wanted, unpacked) ==
  /\ Begin(p, [NoCall EXCEPT !.op = "missing_ids", !.arg = JoinList(wanted),
                 !.via = IF unpacked THEN "unpacked" ELSE "metadata"])
  /\ LET o == GetMissingIds(metadata, local, wanted, unpacked) IN
       IF o.res = "Ok"
       THEN \E order \in Orders(o.ids) : Return(p, "Ok", JoinList(order))
       ELSE Return(p, o.res, o.detail)
  /\ UNCHANGED <<files, metadata, local, now, cache>>

\* the hashes a /files/missing request names
WantedHashes == BlobHashes \cup {BadHash, BadHex}

\* the elements of a list a test keeps, in the list's order
RECURSIVE Filter(_, _)
Filter(seq, keep) ==
  IF seq = <<>> THEN <<>>
  ELSE (IF Head(seq) \in keep THEN <<Head(seq)>> ELSE <<>>) \o Filter(Tail(seq), keep)

\* mutant: hashes that do not parse are left out of the answer
GetMissingFilesLenient(fs, wanted) ==
  [res |-> "Ok", detail |-> "",
   hashes |-> Filter(wanted, {h \in BlobHashes : ~FileExists(fs, h)})]

\* get_missing_files: filter_map over file_exists, collected into
\* io::Result<Vec>: the hashes with no blob in the order they were asked
\* for, or the error of the first hash that does not parse
GetMissingFiles(fs, wanted) ==
  LET bad == {k \in DOMAIN wanted : ~HashParses(wanted[k])} IN
    IF bad # {}
    THEN [res |-> "InvalidHashFormat", hashes |-> <<>>,
          detail |-> InvalidHashDetail(wanted[CHOOSE k \in bad : \A j \in bad : k <= j])]
    ELSE [res |-> "Ok", detail |-> "",
          hashes |-> Filter(wanted, MissingFiles(fs, {wanted[k] : k \in DOMAIN wanted}))]

\* POST /files/missing: get_missing_files
GetMissingFilesRequest(p, wanted) ==
  /\ Begin(p, [NoCall EXCEPT !.op = "missing_files", !.arg = JoinList(wanted)])
  /\ LET o == GetMissingFiles(files, wanted) IN
       IF o.res = "Ok" THEN Return(p, "Ok", JoinList(o.hashes))
       ELSE Return(p, o.res, o.detail)
  /\ UNCHANGED <<files, metadata, local, now, cache>>

\* Config::new: core.hash_algorithm
ConfigHashAlgorithm == "sha256"

\* ?alg= of GET /checksum: None, algorithms HashAlgorithm::from_str knows,
\* and one it does not
NoAlg == "none"
Algorithms == {"md5", "sha256"}
AlgInputs == {NoAlg, "crc"} \cup Algorithms

\* the names in str::cmp order
NameSeq == IdSeq \o <<BadId>>

\* str::cmp on packet ids
IdRank(i) == CHOOSE k \in DOMAIN NameSeq : NameSeq[k] = i

\* Vec::sort
Sort(ids) ==
  CHOOSE o \in [DOMAIN ids -> {ids[k] : k \in DOMAIN ids}] :
    /\ \A i \in {ids[k] : k \in DOMAIN ids} :
         Cardinality({k \in DOMAIN o : o[k] = i}) = Cardinality({k \in DOMAIN ids : ids[k] = i})
    /\ \A j, k \in DOMAIN o : j < k => IdRank(o[j]) <= IdRank(o[k])

\* Vec::join("")
RECURSIVE Concat(_)
Concat(seq) == IF seq = <<>> THEN "" ELSE Head(seq) \o Concat(Tail(seq))

\* mutant: the ids joined in the order read_dir gave them
GetSortedIdStringAsRead(ids) == Concat(ids)

\* get_sorted_id_string: ids.sort(); ids.join("")
GetSortedIdString(ids) == Concat(Sort(ids))

\* get_ids_digest: the algorithm (config's, or the one named), get_ids of
\* metadata/ in read_dir order, hash_data of the sorted id string
GetIdsDigest(md, alg, ids) ==
  IF alg \notin Algorithms \cup {NoAlg}
  THEN [res |-> "InvalidHashAlgorithm", digest |-> Absent]
  ELSE [res |-> "Ok",
        digest |-> HashDataWith(GetSortedIdString(ids),
                                IF alg = NoAlg THEN ConfigHashAlgorithm ELSE alg)]

\* GET /checksum: get_checksum
GetChecksum(p, alg) ==
  /\ Begin(p, [NoCall EXCEPT !.op = "checksum", !.arg = alg])
  /\ \E ids \in Orders(MetadataIds(metadata)) :
       LET o == GetIdsDigest(metadata, alg, ids) IN Return(p, o.res, o.digest)
  /\ UNCHANGED <<files, metadata, local, now, cache>>

\* POST /packets/missing, POST /files/missing, GET /checksum
QueryStep(p) ==
  \/ \E w \in ListsOf(WantedIds), u \in BOOLEAN : GetMissingPackets(p, w, u)
  \/ \E w \in ListsOf(WantedHashes) : GetMissingFilesRequest(p, w)
  \/ \E alg \in AlgInputs : GetChecksum(p, alg)

(***************************************************************************)
(* metrics.rs: the repository collector                                    *)
(***************************************************************************)

\* f.metadata()?.len(): a body is two chunks long, half of it one
Size(content) ==
  CASE content \in {Absent, Empty} -> 0
    [] content \in Data -> 2
    [] OTHER -> 1

\* store::enumerate_files: WalkDir over .outpack/files, every regular file
\* below it
EnumerateFiles(fs) == {n \in FileNames : fs[n] # Absent}

RECURSIVE SumSizes(_, _)
SumSizes(fs, names) ==
  IF names = {} THEN 0
  ELSE LET n == CHOOSE x \in names : TRUE IN Size(fs[n]) + SumSizes(fs, names \ {n})

\* one gauge in the text exposition metrics::render encodes
RenderGauge(name, value) == name \o " " \o ToString(value)

\* GET /metrics: registry.gather() calls RepositoryMetrics::collect and its
\* update, which reads the directories one after the other.
\* update: metadata_total.set(get_ids(root, false)?.len())
ScrapeMetadata(p) ==
  /\ Begin(p, [NoCall EXCEPT !.op = "metrics"])
  /\ pc' = [pc EXCEPT ![p] = "sc_packets"]
  /\ body' = [body EXCEPT ![p] =
                RenderGauge("metadata_total", Cardinality(MetadataIds(metadata)))]
  /\ UNCHANGED <<files, metadata, local, now, cache, result>>

\* update: packets_total.set(get_ids(root, true)?.len())
ScrapePackets(p) ==
  /\ pc[p] = "sc_packets"
  /\ pc' = [pc EXCEPT ![p] = "sc_files"]
  /\ body' = [body EXCEPT ![p] =
                @ \o " " \o RenderGauge("packets_total", Cardinality(UnpackedIds(local)))]
  /\ UNCHANGED <<files, metadata, local, now, cache, call, result>>

\* update: the count and the sizes of the enumerated files; render encodes
\* the gauges
ScrapeFiles(p) ==
  /\ pc[p] = "sc_files"
  /\ Return(p, "Ok",
            body[p] \o " " \o RenderGauge("files_total", Cardinality(EnumerateFiles(files)))
              \o " " \o RenderGauge("file_size_bytes_total",
                                    SumSizes(files, EnumerateFiles(files))))
  /\ UNCHANGED <<files, metadata, local, now, cache, call>>

(***************************************************************************)
(* store.rs: the layout of the blobs, on hash strings character by         *)
(* character                                                               *)
(***************************************************************************)

\* HashAlgorithm and its Display, as characters
AlgorithmChars ==
  [sha1 |-> <<"s", "h", "a", "1">>,
   sha256 |-> <<"s", "h", "a", "2", "5", "6">>,
   md5 |-> <<"m", "d", "5">>]

\* the length of a digest in hex digits
DigestLength == [sha1 |-> 40, sha256 |-> 64, md5 |-> 32]

HexDigits == {"0", "1", "2", "9", "a", "b", "e", "f"}

\* the characters of a sequence as one string
RECURSIVE Str(_)
Str(chars) == IF chars = <<>> THEN "" ELSE Head(chars) \o Str(Tail(chars))

\* digests: all zeros, and all zeros but for one digit, at the start, on
\* either side of the split of file_path and at the end
Digests(alg) ==
  LET n == DigestLength[alg]
      zeros == [i \in 1..n |-> "0"]
  IN {zeros} \cup {[zeros EXCEPT ![i] = "a"] : i \in {1, 2, 3, n}}

\* the valid hashes, as (algorithm, hex)
ValidHashes ==
  UNION {{<<alg, hex>> : hex \in Digests(alg)} : alg \in DOMAIN AlgorithmChars}

\* Hash's Display: "<algorithm>:<value>"
HashChars(alg, hex) == AlgorithmChars[alg] \o <<":">> \o hex

\* the hash strings file_path is given: the valid ones, one without the
\* separator, one of an algorithm the module does not know, one whose right
\* side is not hex and the short one of can_get_path
HashStrings ==
  {HashChars(h[1], h[2]) : h \in ValidHashes}
    \cup {AlgorithmChars["sha256"],
          <<"s", "h", "a", "9", ":", "0", "0", "0">>,
          AlgorithmChars["sha256"] \o <<":", "z", "z", "z">>,
          AlgorithmChars["sha256"] \o <<":", "e", "9", "a", "a", "9", "f", "2", "2", "1", "2", "a", "b">>}

\* str::parse::<Hash>: the string is split at the first ':', the left side
\* names the algorithm and the right side is its value, hex digits
ParseHash(s) ==
  LET seps == {i \in 1..Len(s) : s[i] = ":"}
      at == CHOOSE i \in seps : \A j \in seps : i <= j
      left == SubSeq(s, 1, at - 1)
      right == SubSeq(s, at + 1, Len(s))
      algs == {a \in DOMAIN AlgorithmChars : AlgorithmChars[a] = left}
  IN IF seps = {} THEN [res |-> "InvalidHashFormat", algorithm |-> "", value |-> <<>>]
     ELSE IF algs = {} THEN [res |-> "InvalidHashAlgorithm", algorithm |-> "", value |-> <<>>]
     ELSE IF \E i \in 1..Len(right) : right[i] \notin HexDigits
     THEN [res |-> "InvalidHashFormat", algorithm |-> "", value |-> <<>>]
     ELSE [res |-> "Ok", algorithm |-> CHOOSE a \in algs : TRUE, value |-> right]

\* Path::join
Join(path, component) == path \o "/" \o component

\* mutant: the value joined as one component
FilePathFlat(s) ==
  LET parsed == ParseHash(s) IN
    IF parsed.res # "Ok" THEN [res |-> parsed.res, path |-> ""]
    ELSE [res |-> "Ok",
          path |-> Join(Join(Join(Join(RootName, ".outpack"), "files"),
                             Str(AlgorithmChars[parsed.algorithm])),
                        Str(parsed.value))]

\* file_path: root/.outpack/files/<algorithm>/<value[..2]>/<value[2..]>
FilePath(s) ==
  LET parsed == ParseHash(s) IN
    IF parsed.res # "Ok" THEN [res |-> parsed.res, path |-> ""]
    ELSE [res |-> "Ok",
          path |-> Join(Join(Join(Join(Join(RootName, ".outpack"), "files"),
                                  Str(AlgorithmChars[parsed.algorithm])),
                             Str(SubSeq(parsed.value, 1, 2))),
                        Str(SubSeq(parsed.value, 3, Len(parsed.value))))]

\* a call of file_path(root, hash)
GetFilePath(p, s) ==
  /\ Begin(p, [NoCall EXCEPT !.op = "file_path", !.hash = Str(s)])
  /\ Return(p, FilePath(s).res, FilePath(s).path)
  /\ UNCHANGED <<files, metadata, local, now, cache>>

\* the clock advances
Tick ==
  /\ now < MaxTime
  /\ now' = now + 1
  /\ UNCHANGED <<files, metadata, local, pc, call, result, body, wrote, cache, http, root>>

\* the requests the clients send: uploads whose hash matches, one whose hash
\* is that of other data, one whose hash has no separator
PutFileInputs ==
  {<<"x", HashData("x")>>, <<"y", HashData("y")>>, <<"y", HashData("x")>>, <<"x", BadHash>>}

\* the uploads sent beside ingestions: the file the documents refer to, with
\* its own and with other content
IngestUploads == {<<"x", HashData("x")>>, <<"y", HashData("x")>>}

AddPacketInputs ==
  {<<r, HashData(r)>> : r \in RawDocs}
    \cup {<<"A1", HashData("A2")>>, <<"B1", HashData("A1")>>,
          <<NotJson, HashData(NotJson)>>, <<"A1", BadHash>>}

\* POST /file/<hash>
PutFileStep(p, inputs) ==
  \/ \E i \in inputs : StartPutFile(p, i[1], i[2])
  \/ PutFileValidate(p)
  \/ PutFileExists(p)
  \/ PutFileRename(p)

\* POST /packet/<hash>
AddPacketStep(p) ==
  \/ \E i \in AddPacketInputs : StartAddPacket(p, i[1], i[2])
  \/ CheckMissingFiles(p)
  \/ CheckMissingDependencies(p)
  \/ AddParsedMetadata(p)
  \/ MetadataCreate(p)
  \/ MetadataWrite(p)
  \/ MarkOpen(p)
  \/ MarkWrite(p)
  \/ MarkRead(p)

\* the GET routes
ReadStep(p) ==
  \/ \E id \in Ids : GetMetadataText(p, id)
  \/ \E id \in Ids : GetMetadataById(p, id)
  \/ ReadLocations(p)
  \/ \E h \in BlobHashes : GetFile(p, h)

\* wrote[p]: since its call began, task p has changed a blob, a metadata
\* file or a ledger entry
Durable(fs, md, lc) == <<[h \in BlobHashes |-> fs[h]], md, lc>>

TrackWrote(p) ==
  wrote' = [wrote EXCEPT ![p] =
    (pc[p] # "done" /\ wrote[p])
    \/ Durable(files', metadata', local') # Durable(files, metadata, local)]

\* a step of task p where the middleware is not observed
Track(p) == TrackWrote(p) /\ UNCHANGED <<http, root>>

\* requests served while the middleware is observed
MaxRequests == 2

\* the handler's Result rendered: OutpackSuccess as the success envelope
\* (text and file routes send the bytes), OutpackError through
\* From<io::Error> and into_response; a Query extractor's rejection is
\* axum's own response, plain text
HandlerResponse(op, res, b) ==
  IF res = "Ok"
  THEN [status |-> 200, envelope |-> IF op \in {"get_raw", "get_file"} THEN "raw" ELSE "success",
        data |-> b, errors |-> <<>>, rid |-> NoHeader]
  ELSE IF res = "QueryRejection"
  THEN [status |-> 400, envelope |-> "text", data |-> b, errors |-> <<>>, rid |-> NoHeader]
  ELSE IF res = "NoRoute" THEN IntoResponse(NotFoundError)
  ELSE IntoResponse([error |-> ErrorKind(res), detail |-> b, kind |-> ErrorKind(res)])

\* SetRequestIdLayer::x_request_id(MakeRequestUuid): a request without the
\* header is given a fresh UUID
SetRequestId(request, n) ==
  [request EXCEPT !.rid = IF request.hdr = NoHeader THEN Uuid(n + 1) ELSE request.hdr]

\* make_request_span: request_id is the request's x-request-id header
MakeRequestSpan(request) == request.rid

\* PropagateRequestIdLayer::x_request_id: the request's header is copied to
\* the response the inner service returns
PropagateRequestId(response, request) == [response EXCEPT !.rid = request.rid]

\* the layers between the metrics layer and the handler, outermost first:
\* CatchPanicLayer, SetRequestIdLayer, PropagateRequestIdLayer, TraceLayer.
\* A panic unwinds through the request id layers to CatchPanicLayer
Layers(op, res, b, request) ==
  IF res = "Panic" THEN InternalError
  ELSE PropagateRequestId(HandlerResponse(op, res, b), request)

\* HttpMetrics::track: requests_in_flight inc before next.run(req).await,
\* dec after it
TrackInFlight(inflight, op, began, responded) ==
  IF MatchedPath(op) = NoMatch THEN inflight
  ELSE [inflight EXCEPT ![Label(op)] =
          (@ + IF began THEN 1 ELSE 0) - (IF responded THEN 1 ELSE 0)]

\* mutant: requests without a MatchedPath counted too
TrackTotalUnmatched(total, op, responded, status) ==
  IF ~responded THEN total
  ELSE [total EXCEPT ![<<Label(op), status>>] = @ + 1]

\* HttpMetrics::track: requests_total inc with the response's status; a
\* request without a MatchedPath is passed on untracked
TrackTotal(total, op, responded, status) ==
  IF MatchedPath(op) = NoMatch \/ ~responded THEN total
  ELSE [total EXCEPT ![<<Label(op), status>>] = @ + 1]

\* a step of task p seen from the middleware: the request arrives when the
\* step leaves "done" and the response is sent when the step reaches
\* "done"; a request whose future is dropped gets no response and the code
\* after next.run(req).await does not run
Serve(p) ==
  LET began == pc[p] = "done"
      ended == pc'[p] = "done"
      op == call'[p].op
      responded == ended /\ result'[p] # "Cancelled"
  IN \E hdr \in RequestIdHeaders :
       LET arrived == SetRequestId([NoRequest EXCEPT !.hdr = hdr, !.n = http.seen + 1],
                                   http.uuids)
           request == IF began THEN [arrived EXCEPT !.span = MakeRequestSpan(arrived)]
                      ELSE http.req[p]
           response == IF responded THEN Layers(op, result'[p], body'[p], request)
                       ELSE NoResponse
       IN /\ began => http.seen < MaxRequests
          /\ ~began => hdr = NoHeader
          /\ http' =
               [inflight |-> TrackInFlight(http.inflight, op, began, responded),
                total |-> TrackTotal(http.total, op, responded, response.status),
                req |-> [http.req EXCEPT ![p] = request],
                resp |-> [http.resp EXCEPT ![p] = response],
                uuids |-> IF began /\ hdr = NoHeader THEN http.uuids + 1 ELSE http.uuids,
                seen |-> IF began THEN http.seen + 1 ELSE http.seen]

Observe(p) == TrackWrote(p) /\ Serve(p) /\ UNCHANGED root

\* Upload::persist: path.persist(destination).unwrap() panics in the
\* blocking task when the move fails; add_file's .await.unwrap() raises the
\* panic in the handler; unwinding drops the TempPath and the TempDir
PutFilePanic(p) ==
  /\ pc[p] = "pf_validate"
  /\ files' = DropUpload(files, p)
  /\ Return(p, "Panic", Absent)
  /\ UNCHANGED <<metadata, local, now, call, cache>>

\* the client closes the connection while the body is streamed and the
\* request's future is dropped: the NamedTempFile is dropped with it
RequestDropped(p) ==
  /\ pc[p] \in {"up_stream", "up_more"}
  /\ files' = DropUpload(files, p)
  /\ Return(p, "Cancelled", Absent)
  /\ UNCHANGED <<metadata, local, now, call, cache>>

\* GET /packit/metadata?known_since=abc: the Query<KnownSince> extractor
\* rejects the request before get_metadata_since is called
QueryRejected(p) ==
  /\ Begin(p, [NoCall EXCEPT !.op = "list", !.arg = "known_since=abc"])
  /\ Return(p, "QueryRejection", "Failed to deserialize query string")
  /\ UNCHANGED <<files, metadata, local, now, cache>>

\* a request no route matches: the fallback, not_found
Fallback(p) ==
  /\ Begin(p, [NoCall EXCEPT !.op = "fallback", !.arg = "/badurl"])
  /\ Return(p, "NoRoute", NotFoundError.detail)
  /\ UNCHANGED <<files, metadata, local, now, cache>>

\* uploads and ingestions on concurrent tasks
Next ==
  \E p \in Procs :
    \/ PutFileStep(p, IngestUploads) /\ Track(p)
    \/ AddPacketStep(p) /\ Track(p)

Spec == Init /\ [][Next]_vars

\* one client, one request after the other, while the clock runs
NextSeq ==
  \/ PutFileStep("p1", PutFileInputs) /\ Track("p1")
  \/ AddPacketStep("p1") /\ Track("p1")
  \/ ReadStep("p1") /\ Track("p1")
  \/ Tick

SpecSeq == Init /\ [][NextSeq]_vars

\* concurrent uploads and downloads of blobs
NextStore ==
  \E p \in Procs :
    \/ PutFileStep(p, PutFileInputs) /\ Track(p)
    \/ (\E h \in BlobHashes : GetFile(p, h)) /\ Track(p)

SpecStore == Init /\ [][NextStore]_vars

\* a reader task beside a writer task
NextRead ==
  \/ PutFileStep("p1", PutFileInputs) /\ Track("p1")
  \/ AddPacketStep("p1") /\ Track("p1")
  \/ ReadStep("p2") /\ Track("p2")

SpecRead == Init /\ [][NextRead]_vars

\* concurrent ingestions of the packets while the clock runs
LedgerInputs == {<<"A1", HashData("A1")>>, <<"A2", HashData("A2")>>}

NextLedger ==
  \/ \E p \in Procs :
       \/ PutFileStep(p, {<<"x", HashData("x")>>}) /\ Track(p)
       \/ (\E i \in LedgerInputs : StartAddPacket(p, i[1], i[2])) /\ Track(p)
       \/ CheckMissingFiles(p) /\ Track(p)
       \/ CheckMissingDependencies(p) /\ Track(p)
       \/ AddParsedMetadata(p) /\ Track(p)
       \/ MetadataCreate(p) /\ Track(p)
       \/ MetadataWrite(p) /\ Track(p)
       \/ MarkOpen(p) /\ Track(p)
       \/ MarkWrite(p) /\ Track(p)
       \/ MarkRead(p) /\ Track(p)
  \/ Tick

SpecLedger == Init /\ [][NextLedger]_vars

\* ingestions beside listings of the metadata, while the clock runs
NextCache ==
  \/ \E p \in Procs :
       \/ PutFileStep(p, {<<"x", HashData("x")>>}) /\ Track(p)
       \/ (\E i \in LedgerInputs : StartAddPacket(p, i[1], i[2])) /\ Track(p)
       \/ CheckMissingFiles(p) /\ Track(p)
       \/ CheckMissingDependencies(p) /\ Track(p)
       \/ AddParsedMetadata(p) /\ Track(p)
       \/ MetadataCreate(p) /\ Track(p)
       \/ MetadataWrite(p) /\ Track(p)
       \/ MarkOpen(p) /\ Track(p)
       \/ MarkWrite(p) /\ Track(p)
       \/ MarkRead(p) /\ Track(p)
       \/ (\E f \in Froms : GetMetadataFromDate(p, f)) /\ Track(p)
  \/ Tick

SpecCache == Init /\ [][NextCache]_vars

\* concurrent uploads whose bodies are streamed and may break off
NextUpload ==
  \E p \in Procs :
    \/ (\E i \in PutFileInputs : BeginUpload(p, i[1], i[2])) /\ Track(p)
    \/ StreamChunk(p) /\ Track(p)
    \/ StreamEnd(p) /\ Track(p)
    \/ UploadAbort(p) /\ Track(p)
    \/ PutFileValidate(p) /\ Track(p)
    \/ PutFileExists(p) /\ Track(p)
    \/ PutFileRename(p) /\ Track(p)

SpecUpload == Init /\ [][NextUpload]_vars

\* concurrent ingestions, and reads of the documents ingested
NextFetch ==
  \E p \in Procs :
    \/ PutFileStep(p, {<<"x", HashData("x")>>}) /\ Track(p)
    \/ (\E i \in LedgerInputs : StartAddPacket(p, i[1], i[2])) /\ Track(p)
    \/ CheckMissingFiles(p) /\ Track(p)
    \/ CheckMissingDependencies(p) /\ Track(p)
    \/ AddParsedMetadata(p) /\ Track(p)
    \/ MetadataCreate(p) /\ Track(p)
    \/ MetadataWrite(p) /\ Track(p)
    \/ MarkOpen(p) /\ Track(p)
    \/ MarkWrite(p) /\ Track(p)
    \/ MarkRead(p) /\ Track(p)
    \/ (\E i \in Ids : GetMetadataText(p, i)) /\ Track(p)
    \/ (\E i \in Ids : GetMetadataById(p, i)) /\ Track(p)

SpecFetch == Init /\ [][NextFetch]_vars

\* a task asking what the repository lacks beside a task filling it
QueryUploads == {<<"x", HashData("x")>>}

QueryPackets == {<<"A1", HashData("A1")>>, <<"B1", HashData("B1")>>}

NextQuery ==
  \/ PutFileStep("p1", QueryUploads) /\ Track("p1")
  \/ (\E i \in QueryPackets : StartAddPacket("p1", i[1], i[2])) /\ Track("p1")
  \/ CheckMissingFiles("p1") /\ Track("p1")
  \/ CheckMissingDependencies("p1") /\ Track("p1")
  \/ AddParsedMetadata("p1") /\ Track("p1")
  \/ MetadataCreate("p1") /\ Track("p1")
  \/ MetadataWrite("p1") /\ Track("p1")
  \/ MarkOpen("p1") /\ Track("p1")
  \/ MarkWrite("p1") /\ Track("p1")
  \/ MarkRead("p1") /\ Track("p1")
  \/ QueryStep("p2") /\ Track("p2")

SpecQuery == Init /\ [][NextQuery]_vars

\* listings beside the ingestion of a packet and of one that depends on it,
\* while the clock runs
NextList ==
  \/ PutFileStep("p1", QueryUploads) /\ Track("p1")
  \/ (\E i \in QueryPackets : StartAddPacket("p1", i[1], i[2])) /\ Track("p1")
  \/ CheckMissingFiles("p1") /\ Track("p1")
  \/ CheckMissingDependencies("p1") /\ Track("p1")
  \/ AddParsedMetadata("p1") /\ Track("p1")
  \/ MetadataCreate("p1") /\ Track("p1")
  \/ MetadataWrite("p1") /\ Track("p1")
  \/ MarkOpen("p1") /\ Track("p1")
  \/ MarkWrite("p1") /\ Track("p1")
  \/ MarkRead("p1") /\ Track("p1")
  \/ (\E f \in Froms : GetMetadataFromDate("p2", f)) /\ Track("p2")
  \/ Tick

SpecList == Init /\ [][NextList]_vars

\* scrapes of /metrics beside streamed uploads and ingestions
NextMetrics ==
  \/ (\E i \in IngestUploads : BeginUpload("p1", i[1], i[2])) /\ Track("p1")
  \/ StreamChunk("p1") /\ Track("p1")
  \/ StreamEnd("p1") /\ Track("p1")
  \/ UploadAbort("p1") /\ Track("p1")
  \/ PutFileValidate("p1") /\ Track("p1")
  \/ PutFileExists("p1") /\ Track("p1")
  \/ PutFileRename("p1") /\ Track("p1")
  \/ (\E i \in QueryPackets : StartAddPacket("p1", i[1], i[2])) /\ Track("p1")
  \/ CheckMissingFiles("p1") /\ Track("p1")
  \/ CheckMissingDependencies("p1") /\ Track("p1")
  \/ AddParsedMetadata("p1") /\ Track("p1")
  \/ MetadataCreate("p1") /\ Track("p1")
  \/ MetadataWrite("p1") /\ Track("p1")
  \/ MarkOpen("p1") /\ Track("p1")
  \/ MarkWrite("p1") /\ Track("p1")
  \/ MarkRead("p1") /\ Track("p1")
  \/ ScrapeMetadata("p2") /\ Track("p2")
  \/ ScrapePackets("p2") /\ Track("p2")
  \/ ScrapeFiles("p2") /\ Track("p2")

SpecMetrics == Init /\ [][NextMetrics]_vars

\* a root is initialised, initialised again, and a server is built for it
InitStartup ==
  /\ files = [n \in FileNames |-> Absent]
  /\ metadata = [i \in Names |-> Absent]
  /\ local = [i \in Names |-> NoEntry]
  /\ now = 0
  /\ pc = [p \in Procs |-> "done"]
  /\ call = [p \in Procs |-> NoCall]
  /\ result = [p \in Procs |-> "none"]
  /\ body = [p \in Procs |-> Absent]
  /\ wrote = [p \in Procs |-> FALSE]
  /\ cache = [i \in Names |-> Absent]
  /\ http = NoHttp
  /\ root \in Roots

NextStartup ==
  \/ \E archive \in Archives, store \in BOOLEAN, tree \in BOOLEAN :
       OutpackInit(archive, store, tree)
  \/ Api

SpecStartup == InitStartup /\ [][NextStartup]_vars

\* file_path computed for hash strings taken character by character
NextLayout ==
  \E p \in Procs : (\E s \in HashStrings : GetFilePath(p, s)) /\ Track(p)

SpecLayout == Init /\ [][NextLayout]_vars

\* requests that name hashes, well-formed and not
HashInputs == {HashData("x"), ShortHex, BadHash, BadHex}

NextHash ==
  \/ PutFileStep("p1", {<<"x", h>> : h \in HashInputs}) /\ Track("p1")
  \/ (\E h \in HashInputs : GetFile("p2", h)) /\ Track("p2")
  \/ (\E w \in ListsOf(HashInputs) : GetMissingFilesRequest("p2", w)) /\ Track("p2")

SpecHash == Init /\ [][NextHash]_vars

\* scrapes of /metrics beside concurrent ingestions
NextCount ==
  \E p \in Procs :
    \/ (\E i \in LedgerInputs : StartAddPacket(p, i[1], i[2])) /\ Track(p)
    \/ CheckMissingFiles(p) /\ Track(p)
    \/ CheckMissingDependencies(p) /\ Track(p)
    \/ AddParsedMetadata(p) /\ Track(p)
    \/ MetadataCreate(p) /\ Track(p)
    \/ MetadataWrite(p) /\ Track(p)
    \/ MarkOpen(p) /\ Track(p)
    \/ MarkWrite(p) /\ Track(p)
    \/ MarkRead(p) /\ Track(p)
    \/ ScrapeMetadata(p) /\ Track(p)
    \/ ScrapePackets(p) /\ Track(p)
    \/ ScrapeFiles(p) /\ Track(p)

SpecCount == Init /\ [][NextCount]_vars

\* one ingestion that may be interrupted and is sent again, beside the
\* upload of its file
NextRetry ==
  \/ PutFileStep("p2", QueryUploads) /\ Track("p2")
  \/ /\ result["p1"] = "none"
     /\ \E i \in LedgerInputs : StartAddPacket("p1", i[1], i[2])
     /\ Track("p1")
  \/ CheckMissingFiles("p1") /\ Track("p1")
  \/ CheckMissingDependencies("p1") /\ Track("p1")
  \/ AddParsedMetadata("p1") /\ Track("p1")
  \/ MetadataCreate("p1") /\ Track("p1")
  \/ MetadataWrite("p1") /\ Track("p1")
  \/ MarkOpen("p1") /\ Track("p1")
  \/ MarkWrite("p1") /\ Track("p1")
  \/ MarkRead("p1") /\ Track("p1")
  \/ Interrupt("p1") /\ Track("p1")
  \/ RetryAddPacket("p1") /\ Track("p1")
  \/ Tick

SpecRetry == Init /\ [][NextRetry]_vars

\* documents are added, one of them with an id field that is no packet id,
\* while the ids are digested and the documents listed
IdInputs == {<<"A1", HashData("A1")>>, <<BadIdDoc, HashData(BadIdDoc)>>}

NextIds ==
  \/ (\E i \in IdInputs : StartAddPacket("p1", i[1], i[2])) /\ Track("p1")
  \/ CheckMissingFiles("p1") /\ Track("p1")
  \/ CheckMissingDependencies("p1") /\ Track("p1")
  \/ AddParsedMetadata("p1") /\ Track("p1")
  \/ MetadataCreate("p1") /\ Track("p1")
  \/ MetadataWrite("p1") /\ Track("p1")
  \/ MarkOpen("p1") /\ Track("p1")
  \/ MarkWrite("p1") /\ Track("p1")
  \/ MarkRead("p1") /\ Track("p1")
  \/ GetChecksum("p2", NoAlg) /\ Track("p2")
  \/ GetMetadataFromDate("p2", NoFrom) /\ Track("p2")

SpecIds == Init /\ [][NextIds]_vars

\* blobs and documents are posted under sha256 hashes and under md5 hashes
AlgorithmUploads == {<<"x", HashData("x")>>, <<"x", HashDataWith("x", "md5")>>}
AlgorithmPackets == {<<"A1", HashData("A1")>>, <<"A1", HashDataWith("A1", "md5")>>}

NextAlgorithm ==
  \/ PutFileStep("p1", AlgorithmUploads) /\ Track("p1")
  \/ (\E i \in AlgorithmPackets : StartAddPacket("p2", i[1], i[2])) /\ Track("p2")
  \/ CheckMissingFiles("p2") /\ Track("p2")
  \/ CheckMissingDependencies("p2") /\ Track("p2")
  \/ AddParsedMetadata("p2") /\ Track("p2")
  \/ MetadataCreate("p2") /\ Track("p2")
  \/ MetadataWrite("p2") /\ Track("p2")
  \/ MarkOpen("p2") /\ Track("p2")
  \/ MarkWrite("p2") /\ Track("p2")
  \/ MarkRead("p2") /\ Track("p2")
  \/ Tick

SpecAlgorithm == Init /\ [][NextAlgorithm]_vars

\* requests through the whole router: reads of documents, streamed uploads
\* that may break off or panic, ingestions, a rejected query and a path
\* without a route
HttpUploads == {<<"x", HashData("x")>>, <<"y", HashData("x")>>}

HttpPackets == LedgerInputs \cup {<<NotJson, HashData(NotJson)>>}

NextHttp ==
  \E p \in Procs :
    \/ (\E id \in RequestIds : GetMetadataText(p, id)) /\ Observe(p)
    \/ (\E id \in RequestIds : GetMetadataById(p, id)) /\ Observe(p)
    \/ (\E i \in HttpUploads : BeginUpload(p, i[1], i[2])) /\ Observe(p)
    \/ StreamChunk(p) /\ Observe(p)
    \/ StreamEnd(p) /\ Observe(p)
    \/ UploadAbort(p) /\ Observe(p)
    \/ RequestDropped(p) /\ Observe(p)
    \/ PutFileValidate(p) /\ Observe(p)
    \/ PutFilePanic(p) /\ Observe(p)
    \/ PutFileExists(p) /\ Observe(p)
    \/ PutFileRename(p) /\ Observe(p)
    \/ (\E i \in HttpPackets : StartAddPacket(p, i[1], i[2])) /\ Observe(p)
    \/ CheckMissingFiles(p) /\ Observe(p)
    \/ CheckMissingDependencies(p) /\ Observe(p)
    \/ AddParsedMetadata(p) /\ Observe(p)
    \/ MetadataCreate(p) /\ Observe(p)
    \/ MetadataWrite(p) /\ Observe(p)
    \/ MarkOpen(p) /\ Observe(p)
    \/ MarkWrite(p) /\ Observe(p)
    \/ MarkRead(p) /\ Observe(p)
    \/ QueryRejected(p) /\ Observe(p)
    \/ Fallback(p) /\ Observe(p)

SpecHttp == Init /\ [][NextHttp]_vars

(***************************************************************************)
(* properties                                                              *)
(***************************************************************************)

\* an add_packet request whose document parses and whose hash is the document's
ValidAddPacket(p) ==
  /\ Done(p, "add_packet")
  /\ Parses(call[p].arg)
  /\ call[p].hash = HashData(call[p].arg)

\* a put_file request whose hash is the data's
ValidPutFile(p) ==
  /\ Done(p, "put_file")
  /\ call[p].hash = HashData(call[p].arg)

\* C1: complete tree. In every state reached by interleaved put_file and
\* add_packet requests, every document stored under metadata/<id> has a blob
\* for each hash in its files[] and an entry in location/local for each id in
\* its depends[].
CompleteTree ==
  \A i \in Ids :
    metadata[i] \notin {Absent, Empty} =>
      /\ \A h \in ParsePacket(metadata[i]).files : FileExists(files, h)
      /\ \A d \in ParsePacket(metadata[i]).depends : local[d].st # "absent"

\* a document with a file and a dependency has been ingested while an upload
\* is in flight on the other task
CompleteTreeWitness ==
  \E p, q \in Procs :
    /\ ValidAddPacket(p) /\ call[p].arg = "B1" /\ result[p] = "Ok"
    /\ metadata["b"] = "B1"
    /\ call[q].op = "put_file" /\ pc[q] # "done"

\* C2: blob integrity. In every state, under concurrent put_file calls too,
\* a blob present at file_path(root, h) has content whose digest is h.
BlobIntegrity ==
  \A h \in BlobHashes : FileExists(files, h) => HashData(files[h]) = h

\* a blob is stored, an upload of other data under its hash has been
\* rejected, and another upload is in flight
BlobIntegrityWitness ==
  \E p, q \in Procs :
    /\ Done(p, "put_file") /\ call[p].arg = "y" /\ call[p].hash = HashData("x")
    /\ result[p] = "HashMismatch"
    /\ files[HashData("x")] = "x"
    /\ call[q].op = "put_file" /\ pc[q] = "pf_rename"

\* C3: ingestion atomicity. An add_packet call that fails a precondition (a
\* missing file, a dependency that is not unpacked, a hash that does not
\* match the document) has changed neither metadata/<id> nor the local
\* ledger (nor any blob).
IngestionAtomicity ==
  \A p \in Procs :
    (Done(p, "add_packet") /\ result[p] \in {"MissingFiles", "MissingDeps", "HashMismatch"})
      => ~wrote[p]

\* one call has failed on its hash and the other on a missing file or
\* dependency
IngestionAtomicityWitness ==
  \E p, q \in Procs :
    /\ Done(p, "add_packet") /\ result[p] = "HashMismatch"
    /\ Done(q, "add_packet") /\ result[q] \in {"MissingFiles", "MissingDeps"}

\* C4: idempotent re-ingestion. After a successful add_packet(raw, h), a
\* second add_packet(raw, h) returns success and changes neither
\* metadata/<id> nor location/local/<id>: a call that returns while the
\* repository holds its document and a ledger entry with its hash has
\* succeeded, and a call that found the entry already there changed nothing.
IdempotentReingestion ==
  \A p \in Procs :
    (/\ ValidAddPacket(p)
     /\ metadata[ParsePacket(call[p].arg).id] = call[p].arg
     /\ local[ParsePacket(call[p].arg).id].st = "full"
     /\ local[ParsePacket(call[p].arg).id].hash = call[p].hash)
      => /\ result[p] = "Ok"
         /\ call[p].via = "compared" => ~wrote[p]

\* C5: conflicting ingestion. An add_packet(raw2, hash(raw2)) whose files and
\* dependencies are there, made while a different document is stored under
\* its packet id, fails with AlreadyExists and never reports success.
ConflictingIngestion ==
  \A p \in Procs :
    (/\ ValidAddPacket(p)
     /\ metadata[ParsePacket(call[p].arg).id] \notin {Absent, Empty, call[p].arg}
     /\ result[p] \notin {"MissingFiles", "MissingDeps"})
      => result[p] = "AlreadyExists"

\* C6: store idempotence. Successive put_file(root, data, h) calls with
\* h = hash(data) return success, and afterwards one entry under files/ holds
\* data: the blob for h.
StoreIdempotence ==
  \A p \in Procs :
    ValidPutFile(p) =>
      /\ result[p] = "Ok"
      /\ files[call[p].hash] = call[p].arg
      /\ {n \in FileNames : files[n] = call[p].arg} = {call[p].hash}

\* the second of two successive calls has returned: it found the blob stored
StoreIdempotenceWitness ==
  \E p \in Procs :
    /\ ValidPutFile(p) /\ call[p].had /\ call[p].via = "exists"
    /\ result[p] = "Ok"

\* C7: store atomicity. After a put_file(root, data, h) that fails hash
\* validation, the call has stored nothing and its upload temp file is gone
\* from files/; if h was not stored before the call, file_exists(root, h) is
\* false.
StoreAtomicity ==
  \A p \in Procs :
    (Done(p, "put_file") /\ result[p] \in {"HashMismatch", "InvalidHashFormat"}) =>
      /\ ~wrote[p]
      /\ files[UploadName(p)] = Absent
      /\ (result[p] = "HashMismatch" /\ ~call[p].had) => ~FileExists(files, call[p].hash)

\* an upload of other data under a hash that is not stored has been rejected
StoreAtomicityWitness ==
  \E p \in Procs :
    /\ Done(p, "put_file") /\ result[p] = "HashMismatch" /\ ~call[p].had
    /\ call[p].arg = "y" /\ call[p].hash = HashData("x")

ExclusiveCreate ==
  \A p, q \in Procs :
    (/\ p # q /\ ValidAddPacket(p) /\ ValidAddPacket(q)
     /\ ParsePacket(call[p].arg).id = ParsePacket(call[q].arg).id
     /\ call[p].arg # call[q].arg
     /\ {result[p], result[q]} \cap {"MissingFiles", "MissingDeps"} = {})
      => \E w \in {p, q} :
           /\ metadata[ParsePacket(call[w].arg).id] = call[w].arg
           /\ result[w] = "Ok"
           /\ \A o \in {p, q} \ {w} : result[o] = "AlreadyExists"

\* C10: written files appear atomically. A reader running beside add_packet
\* or put_file sees each metadata file, ledger entry and blob absent or
\* complete: no read returns an empty file or fails to parse one.
AtomicAppearance ==
  \A p \in Procs :
    call[p].op \in {"get_raw", "get_by_id", "read_locations", "get_file"} =>
      /\ result[p] # "InvalidData"
      /\ body[p] # Empty

\* C11: metadata immutability. Once metadata/<id> holds a document, no step
\* of any add_packet call, whatever the interleaving, changes the bytes stored
\* there.
MetadataImmutability ==
  [][\A i \in Ids :
       metadata[i] \notin {Absent, Empty} => metadata'[i] = metadata[i]]_vars

\* C12: metadata-ledger agreement. In every state, for every packet id with
\* an entry written in location/local, the digest of the bytes stored in
\* metadata/<id> is the hash recorded in the entry.
MetadataLedgerAgreement ==
  \A i \in Ids :
    local[i].st = "full" =>
      /\ metadata[i] # Absent
      /\ HashData(metadata[i]) = local[i].hash

CacheTransparency ==
  [][\A p \in Procs, f \in Froms :
       GetMetadataFromDate(p, f) =>
         /\ result'[p] = ListOutcome(metadata, local, NoCache, f).res
         /\ body'[p] = ListOutcome(metadata, local, NoCache, f).body]_vars

\* C15: upload cancellation. When an upload breaks off while its body is
\* being streamed, its temp file is removed, put_file has not run for it (no
\* file_exists branch, no rename) and the call has changed no blob.
UploadCancellation ==
  \A p \in Procs :
    (Done(p, "put_file") /\ result[p] = "StreamError") =>
      /\ files[UploadName(p)] = Absent
      /\ call[p].via = ""
      /\ ~wrote[p]

\* an upload of valid data broke off while it was streamed, and the other
\* task's upload of the same blob went through to its rename
UploadCancellationWitness ==
  \E p, q \in Procs :
    /\ Done(p, "put_file") /\ result[p] = "StreamError"
    /\ call[p].hash = HashData(call[p].arg)
    /\ ValidPutFile(q) /\ call[q].via = "renamed" /\ call[q].hash = call[p].hash

\* C16: ingestion check order. add_packet validates the document against the
\* claimed hash before it looks for missing files and dependencies: a call
\* whose claimed hash is not the document's is rejected with HashMismatch,
\* also when files or dependencies are missing.
IngestionCheckOrder ==
  \A p \in Procs :
    (/\ Done(p, "add_packet")
     /\ Parses(call[p].arg)
     /\ ValidateHash(call[p].arg, call[p].hash) = "HashMismatch")
      => result[p] = "HashMismatch"

\* the precondition checks of a call with a matching hash: the call fails
\* with InvalidInput on the step that checks the files iff some hash of
\* files[] has no blob, and on the step that checks the dependencies iff some
\* id of depends[] has no entry in location/local; otherwise it goes on
ChecksDecide(p) ==
  LET d == ParsePacket(call[p].arg) IN
    /\ (pc[p] = "ap_files" /\ pc'[p] # "ap_files") =>
         IF \E h \in d.files : files[h] = Absent
         THEN pc'[p] = "done" /\ result'[p] = "MissingFiles"
         ELSE pc'[p] = "ap_deps"
    /\ (pc[p] = "ap_deps" /\ pc'[p] # "ap_deps") =>
         IF \E i \in d.depends : local[i].st = "absent"
         THEN pc'[p] = "done" /\ result'[p] = "MissingDeps"
         ELSE pc'[p] = "ap_exists"

\* the call returns from the write of its ledger entry
ReturnsFromLedger(p) ==
  pc[p] \in {"mk_write", "mk_read"} /\ pc'[p] = "done"

MatchingHash(p) ==
  /\ call[p].op = "add_packet" /\ pc[p] # "done"
  /\ call[p].hash = HashData(call[p].arg)

ByteIdenticalPersistence ==
  [][\A p, q \in Procs :
       (ValidAddPacket(p) /\ result[p] = "Ok") =>
         /\ GetMetadataText(q, ParsePacket(call[p].arg).id) =>
              /\ result'[q] = "Ok"
              /\ body'[q] = call[p].arg
              /\ HashData(body'[q]) = call[p].hash
         /\ GetMetadataById(q, ParsePacket(call[p].arg).id) =>
              /\ result'[q] = "Ok"
              /\ body'[q] = call[p].arg]_vars

WriteFileIdempotent ==
  [][\A p \in Procs :
       LET id == ParsePacket(call[p].arg).id IN
         /\ (pc[p] = "mk_open" /\ pc'[p] # "mk_open") =>
              IF local[id].st = "absent"
              THEN pc'[p] = "mk_write" /\ local'[id].st # "absent"
              ELSE pc'[p] = "mk_read" /\ local' = local
         /\ (pc[p] = "mk_write" /\ pc'[p] # "mk_write") =>
              /\ pc'[p] = "done" /\ result'[p] = "Ok"
              /\ local' = [local EXCEPT ![id] = LedgerContents(p)]
         /\ (pc[p] = "mk_read" /\ pc'[p] # "mk_read") =>
              /\ pc'[p] = "done" /\ local' = local
              /\ result'[p] = IF local[id] = LedgerContents(p)
                              THEN "Ok" ELSE "AlreadyExists"]_vars

\* the three cases have happened: the entry for a was created by one call,
\* and the last call found it holding another hash and failed
WriteFileIdempotentWitness ==
  \E p \in Procs :
    /\ ValidAddPacket(p) /\ call[p].via = "compared"
    /\ result[p] = "AlreadyExists"
    /\ local[ParsePacket(call[p].arg).id].st = "full"
    /\ local[ParsePacket(call[p].arg).id].hash # call[p].hash

\* C21: missing ids. get_missing_ids(root, wanted, unpacked) answers with
\* exactly the wanted ids, trimmed, that are not known (no file under
\* metadata/ when unpacked is false, none under location/local/ when it is
\* true), each once; if any wanted id is invalid after trimming the whole
\* call fails with InvalidInput and no list is returned.
MissingIdsExact ==
  [][\A p \in Procs :
       call'[p].op = "missing_ids" =>
         \A w \in ListsOf(WantedIds), u \in BOOLEAN :
           (call'[p].arg = JoinList(w) /\ GetMissingPackets(p, w, u)) =>
             LET trimmed == {Trim(w[k]) : k \in DOMAIN w}
                 known == IF u THEN {i \in Ids : local[i].st # "absent"}
                          ELSE {i \in Ids : metadata[i] # Absent}
             IN IF \E i \in trimmed : ~IsPacketStr(i)
                THEN /\ ErrorKind(result'[p]) = "InvalidInput"
                     /\ \A S \in SUBSET trimmed : \A o \in Orders(S) : body'[p] # JoinList(o)
                ELSE /\ result'[p] = "Ok"
                     /\ \E o \in Orders(trimmed \ known) : body'[p] = JoinList(o)]_vars

\* packet a has its document but no ledger entry yet; asked for a twice,
\* once with whitespace around it, among the unpacked ids, the call has
\* answered with a alone
MissingIdsExactWitness ==
  \E p \in Procs :
    /\ Done(p, "missing_ids")
    /\ call[p].arg = JoinList(<<Padded, "a">>) /\ call[p].via = "unpacked"
    /\ metadata["a"] # Absent /\ local["a"].st = "absent"
    /\ result[p] = "Ok" /\ body[p] = JoinList(<<"a">>)

\* C22: missing files. store.missing(root, hashes) answers with exactly the
\* requested hashes that have no blob; if a requested hash does not parse,
\* the call fails with the parse error of the first such hash, as
\* InvalidInput.
MissingFilesExact ==
  [][\A p \in Procs :
       call'[p].op = "missing_files" =>
         \A w \in ListsOf(WantedHashes) :
           (call'[p].arg = JoinList(w) /\ GetMissingFilesRequest(p, w)) =>
             IF \A k \in DOMAIN w : HashParses(w[k])
             THEN /\ result'[p] = "Ok"
                  /\ body'[p] = JoinList(Filter(w, {h \in BlobHashes : files[h] = Absent}))
             ELSE /\ ErrorKind(result'[p]) = "InvalidInput"
                  /\ \E k \in DOMAIN w :
                       /\ ~HashParses(w[k])
                       /\ \A j \in 1..(k - 1) : HashParses(w[j])
                       /\ body'[p] = InvalidHashDetail(w[k])]_vars

\* one blob is stored; a call naming it and the other has answered with
\* the other, and a call naming two hashes that do not parse has failed on
\* the first
MissingFilesExactWitness ==
  \E p \in Procs :
    /\ Done(p, "missing_files")
    /\ FileExists(files, HashData("x")) /\ ~FileExists(files, HashData("y"))
    /\ \/ /\ call[p].arg = JoinList(<<HashData("x"), HashData("y")>>)
          /\ result[p] = "Ok" /\ body[p] = JoinList(<<HashData("y")>>)
       \/ /\ call[p].arg = JoinList(<<BadHex, BadHash>>)
          /\ result[p] = "InvalidHashFormat" /\ body[p] = InvalidHashDetail(BadHex)

\* C24: ids digest. ids_digest depends only on the set of ids under
\* metadata/, not on the order they are stored or enumerated in: it is the
\* hash of the ids, sorted lexicographically and concatenated without a
\* separator.
IdsDigestOrderFree ==
  [][\A p \in Procs :
       (call'[p].op = "checksum" /\ \E alg \in AlgInputs : GetChecksum(p, alg)) =>
         (result'[p] = "Ok" =>
            \E alg \in Algorithms :
              body'[p] = HashDataWith((IF metadata["a"] # Absent THEN "a" ELSE "")
                                        \o (IF metadata["b"] # Absent THEN "b" ELSE ""),
                                      alg))]_vars

\* both packets have documents and the digest of "ab" has been returned
IdsDigestOrderFreeWitness ==
  \E p \in Procs :
    /\ Done(p, "checksum") /\ call[p].arg = NoAlg
    /\ metadata["a"] # Absent /\ metadata["b"] # Absent
    /\ result[p] = "Ok" /\ body[p] = HashDataWith("ab", ConfigHashAlgorithm)

Arrives(p) == http'.req[p].n # http.req[p].n

\* C25: unknown id. get_by_id and get_raw, asked for an id that has no
\* metadata file, fail with NotFound (404) and the message "packet with id
\* '<id>' does not exist", whether or not the id is a well-formed packet id;
\* they never answer 400 or 500 for a missing id.
UnknownIdNotFound ==
  [][\A p \in Procs :
       (/\ Arrives(p)
        /\ call'[p].op \in {"get_raw", "get_by_id"}
        /\ (call'[p].arg \notin Ids \/ metadata[call'[p].arg] = Absent)) =>
         /\ http'.resp[p].status = 404
         /\ http'.resp[p].errors =
              <<[error |-> "NotFound", detail |-> NotFoundDetail(call'[p].arg)]>>]_vars

\* C26: status mapping. Every failure response has the status fixed by the
\* error kind (NotFound 404, InvalidInput and UnexpectedEof 400,
\* AlreadyExists 409, anything else 500) and its body is the failure
\* envelope, with data null and exactly one error.
FailureEnvelope ==
  \A p \in Procs :
    http.resp[p].status \notin {0, 200} =>
      LET r == http.resp[p]
          kind == IF result[p] = "QueryRejection" THEN "InvalidInput"
                  ELSE ErrorKind(result[p])
      IN /\ r.status = (CASE kind = "NotFound" -> 404
                           [] kind \in {"InvalidInput", "UnexpectedEof"} -> 400
                           [] kind = "AlreadyExists" -> 409
                           [] OTHER -> 500)
         /\ r.envelope = "failure"
         /\ r.data = "null"
         /\ Len(r.errors) = 1

\* C27: panics. A panic in a handler, or in the blocking task add_file
\* spawns, is answered with status 500 and the failure envelope whose error
\* is UNKNOWN_ERROR; the task serves later requests, and the repository is
\* as an operation that never started would have left it.
PanicCaught ==
  \A p \in Procs :
    (pc[p] = "done" /\ result[p] = "Panic") =>
      /\ http.resp[p].status = 500
      /\ http.resp[p].envelope = "failure"
      /\ http.resp[p].data = "null"
      /\ Len(http.resp[p].errors) = 1
      /\ http.resp[p].errors[1].error = "UNKNOWN_ERROR"
      /\ ~wrote[p]
      /\ files[UploadName(p)] = Absent

\* an upload has panicked, and a request that arrived after it has been
\* answered with 200
PanicCaughtWitness ==
  \E p, q \in Procs :
    /\ Done(p, "put_file") /\ result[p] = "Panic"
    /\ http.req[q].n > http.req[p].n
    /\ http.resp[q].status = 200

\* C28: request id. Every response (success, failure, the 404 of a path
\* without a route, the 500 of a panic) carries an x-request-id header: the
\* request's own when it sent one, a fresh UUID otherwise; the log span of
\* the request is bound to the same value.
RequestIdEchoed ==
  \A p \in Procs :
    http.resp[p].status # 0 =>
      /\ http.resp[p].rid # NoHeader
      /\ http.req[p].hdr # NoHeader => http.resp[p].rid = http.req[p].hdr
      /\ http.req[p].span = http.resp[p].rid
      /\ \A q \in Procs \ {p} :
           (http.req[p].hdr = NoHeader /\ http.req[q].hdr = NoHeader) =>
             http.resp[p].rid # http.req[q].rid

\* C29: in-flight gauge. For each (endpoint, method) the gauge equals the
\* number of matched requests being handled: incremented when handling
\* starts, decremented once when it ends, however it ends (response, error,
\* panic, cancellation); never negative, and 0 when none is in flight.
InFlightGauge ==
  \A l \in Labels :
    http.inflight[l] =
      Cardinality({p \in Procs : pc[p] # "done" /\ MatchedPath(call[p].op) # NoMatch
                                  /\ Label(call[p].op) = l})

\* C30: requests_total. Each completed request to a matched route adds
\* exactly one to requests_total{endpoint, method, status}, the endpoint
\* being the route's template whatever the path parameter; a request that
\* matched no route changes no HTTP metric.
RequestsTotalExact ==
  [][\A p \in Procs :
       (Arrives(p) \/ pc'[p] # pc[p]) =>
         LET op == call'[p].op
             status == http'.resp[p].status
         IN IF pc'[p] = "done" /\ status # 0 /\ op # "fallback"
            THEN /\ http'.total =
                      [http.total EXCEPT ![<<Label(op), status>>] = @ + 1]
                 /\ op = "get_raw" => Label(op) = "GET /metadata/:id/text"
                 /\ op = "put_file" => Label(op) = "POST /file/:hash"
            ELSE /\ http'.total = http.total
                 /\ op = "fallback" => http'.inflight = http.inflight]_vars

\* two requests for the text of different ids have been answered with 404
\* and counted in one series
RequestsTotalExactWitness ==
  \E p, q \in Procs :
    /\ Done(p, "get_raw") /\ Done(q, "get_raw")
    /\ call[p].arg # call[q].arg
    /\ http.resp[p].status = 404 /\ http.resp[q].status = 404
    /\ http.total[<<"GET /metadata/:id/text", 404>>] = 2


\* the blobs of the content-addressed store
StoredBlobs(fs) == {h \in BlobHashes : fs[h] # Absent}

\* C31: repository metrics. At every scrape, also while uploads are in
\* flight, files_total is the number of blobs in the store and
\* file_size_bytes_total their total size, metadata_total the number of
\* documents under metadata/ and packets_total the number of entries in
\* location/local.
RepositoryMetricsExact ==
  [][\A p \in Procs :
       /\ ScrapeMetadata(p) =>
            body'[p] = RenderGauge("metadata_total", Cardinality(MetadataIds(metadata)))
       /\ ScrapePackets(p) =>
            body'[p] = body[p] \o " "
                         \o RenderGauge("packets_total", Cardinality(UnpackedIds(local)))
       /\ ScrapeFiles(p) =>
            body'[p] = body[p] \o " "
                         \o RenderGauge("files_total", Cardinality(StoredBlobs(files)))
                         \o " "
                         \o RenderGauge("file_size_bytes_total",
                                        SumSizes(files, StoredBlobs(files)))]_vars

\* the root passes every rule of the server
ServerRules(r) ==
  /\ r.outpack
  /\ r.config.st = "ok"
  /\ r.config.core.use_file_store
  /\ r.config.core.require_complete_tree
  /\ r.config.core.hash_algorithm = "sha256"
  /\ r.config.core.path_archive = NoArchive

\* C32: startup preflight. Building the server succeeds if and only if
\* .outpack exists, its config parses, use_file_store and
\* require_complete_tree are true, hash_algorithm is sha256 and path_archive
\* is absent; otherwise it fails with the message of the first violated rule
\* (file store, complete tree, hash algorithm, archive) and no router is
\* returned.
StartupPreflight ==
  [][Api =>
       /\ root'.server = "Router" <=> ServerRules(root)
       /\ (root.outpack /\ root.config.st = "ok" /\ ~ServerRules(root)) =>
            LET core == root.config.core IN
              root'.server =
                IF ~core.use_file_store THEN FileStoreMessage
                ELSE IF ~core.require_complete_tree THEN CompleteTreeMessage
                ELSE IF core.hash_algorithm # "sha256"
                     THEN HashAlgorithmMessage(core.hash_algorithm)
                ELSE ArchiveMessage(core.path_archive)
       /\ ~root.outpack => root'.server = RootNotFoundMessage
       /\ (root.outpack /\ root.config.st # "ok") => root'.server = ReadFailedMessage]_vars

\* a server refused for its hash algorithm when its root has an archive too
StartupPreflightWitness ==
  /\ root.server = HashAlgorithmMessage("sha1")
  /\ root.config.core.path_archive # NoArchive

\* hash strings without the separator, or whose right side is not hex of
\* the algorithm's digest length
Malformed == {BadHash, BadHex, ShortHex}

\* C33: every operation that parses a hash string (file_path, file_exists,
\* missing, put_file) fails with an invalid-hash-format error when the
\* separator is missing or the right side is not valid hex of exactly the
\* algorithm's digest length, before it touches the store.
HashFormatChecked ==
  [][\A p \in Procs :
       /\ \A h \in Malformed :
            GetFile(p, h) => result'[p] = "InvalidHashFormat"
       /\ \A w \in ListsOf(HashInputs) :
            (GetMissingFilesRequest(p, w) /\ \E k \in DOMAIN w : w[k] \in Malformed)
              => result'[p] = "InvalidHashFormat"
       /\ (call[p].op = "put_file" /\ call[p].hash \in Malformed
             /\ pc[p] # "done" /\ pc'[p] = "done")
              => (result'[p] = "InvalidHashFormat" /\ ~wrote'[p])]_vars

\* C34: layout. For every valid (algo, hex), file_path(root, "<algo>:<hex>")
\* is root/.outpack/files/<algo>/<hex[0:2]>/<hex[2:]>, the same at every
\* call, and two distinct hashes never map to the same path.
LayoutExact ==
  /\ \A p \in Procs : \A h \in ValidHashes :
       (Done(p, "file_path") /\ call[p].hash = Str(HashChars(h[1], h[2]))) =>
         /\ result[p] = "Ok"
         /\ body[p] = RootName \o "/.outpack/files/" \o h[1] \o "/"
                        \o Str(SubSeq(h[2], 1, 2)) \o "/"
                        \o Str(SubSeq(h[2], 3, Len(h[2])))
  /\ \A p, q \in Procs :
       (Done(p, "file_path") /\ Done(q, "file_path")
          /\ result[p] = "Ok" /\ result[q] = "Ok") =>
         (call[p].hash = call[q].hash <=> body[p] = body[q])

\* the paths of two hashes that differ in their third digit only, and so
\* only in the last component
LayoutExactWitness ==
  /\ Done("p1", "file_path") /\ Done("p2", "file_path")
  /\ result["p1"] = "Ok" /\ result["p2"] = "Ok"
  /\ call["p1"].hash = Str(HashChars("sha256", [i \in 1..64 |-> "0"]))
  /\ call["p2"].hash = Str(HashChars("sha256", [i \in 1..64 |-> IF i = 3 THEN "a" ELSE "0"]))
  /\ body["p1"] # body["p2"]

\* C35: concurrent matching rewrites. Two concurrent
\* write_file_idempotent(path, c) calls with identical contents both succeed
\* in every interleaving: the call that finds the file there, put by a call
\* that is writing the same contents, returns Ok.
ConcurrentMatchingRewrites ==
  [][\A p, q \in Procs :
       (/\ p # q
        /\ MarkRead(p)
        /\ pc[q] = "mk_write"
        /\ ParsePacket(call[q].arg).id = ParsePacket(call[p].arg).id
        /\ LedgerContents(q) = LedgerContents(p))
         => result'[p] = "Ok"]_vars

\* every id with an entry in location/local has a document under metadata/
KnownHaveMetadata == UnpackedIds(local) \subseteq MetadataIds(metadata)

\* the gauges a scrape reported: no more packets than documents
ScrapedInOrder(p) ==
  \E m, k \in 0..Cardinality(Ids), f \in 0..Cardinality(FileNames) :
    \E s \in 0..(2 * Cardinality(FileNames)) :
      /\ body[p] = RenderGauge("metadata_total", m) \o " "
                     \o RenderGauge("packets_total", k) \o " "
                     \o RenderGauge("files_total", f) \o " "
                     \o RenderGauge("file_size_bytes_total", s)
      /\ k <= m

RetryAfterInterruption ==
  \A p \in Procs :
    (Done(p, "add_packet") /\ call[p].retry) =>
      LET id == ParsePacket(call[p].arg).id IN
        /\ result[p] = "Ok"
        /\ metadata[id] = call[p].arg
        /\ local[id].st = "full"
        /\ local[id].hash = call[p].hash
\* C38: every file under metadata/ and location/local/ is named by a packet
\* id; an add_packet whose document has an id field that is no packet id is
\* refused and writes nothing; so the names get_ids gives to ids_digest are
\* the ids the listing returns
PacketIdsCanonical ==
  /\ \A n \in Names :
       (metadata[n] # Absent \/ local[n].st # "absent") => IsPacketStr(n)
  /\ \A p \in Procs :
       (Done(p, "add_packet") /\ Parses(call[p].arg)
          /\ ~IsPacketStr(ParsePacket(call[p].arg).id))
         => (result[p] # "Ok" /\ ~wrote[p])
  /\ MetadataIds(metadata) = ListedIds(metadata, local, NoFrom)

\* C39: with sha256 as the configured algorithm, every blob of the store is
\* named by a sha256 hash and every ledger entry records a sha256 hash; a
\* POST /file or POST /packet under a hash of another algorithm changes
\* nothing
OnlyConfiguredAlgorithm ==
  /\ \A n \in FileNames \ {UploadName(p) : p \in Procs} :
       files[n] # Absent => HashAlgorithmOf(n) = ConfigHashAlgorithm
  /\ \A i \in Names :
       local[i].st = "full" => HashAlgorithmOf(local[i].hash) = ConfigHashAlgorithm
  /\ \A p \in Procs :
       (pc[p] = "done" /\ call[p].op \in {"put_file", "add_packet"}
          /\ HashParses(call[p].hash)
          /\ HashAlgorithmOf(call[p].hash) # ConfigHashAlgorithm)
         => (result[p] # "Ok" /\ ~wrote[p])

\* the requested core configuration is the one config.json holds
SameAsStored(archive, store, tree) ==
  /\ root.config.st = "ok"
  /\ root.config.core.hash_algorithm = "sha256"
  /\ root.config.core.path_archive = archive
  /\ root.config.core.use_file_store = store
  /\ root.config.core.require_complete_tree = tree

\* C40 as stated: outpack_init on a root that has .outpack succeeds and
\* changes nothing when the requested core configuration equals the stored
\* one, and otherwise fails with "Trying to change config on
\* reinitialisation", leaving the stored configuration and the directories
\* as they were.
Reinitialisation ==
  [][\A archive \in Archives, store \in BOOLEAN, tree \in BOOLEAN :
       (OutpackInit(archive, store, tree) /\ root.outpack) =>
         /\ root'.outpack /\ root'.config = root.config /\ root'.dirs = root.dirs
         /\ root'.init = IF SameAsStored(archive, store, tree) THEN "Ok"
                         ELSE "Trying to change config on reinitialisation"]_vars

\* C40, amended: a request with neither an archive nor a file store fails
\* with the message of Config::new, and a config.json that is missing or
\* does not parse fails the call with the error of reading it; otherwise the
\* call succeeds when the requested core configuration equals the stored one
\* and fails with "Trying to change config on reinitialisation" when it
\* differs. In every case the stored configuration and the directories are
\* unchanged.
ReinitialisationAmended ==
  [][\A archive \in Archives, store \in BOOLEAN, tree \in BOOLEAN :
       (OutpackInit(archive, store, tree) /\ root.outpack) =>
         /\ root'.outpack /\ root'.config = root.config /\ root'.dirs = root.dirs
         /\ root'.init =
              IF ~store /\ archive = NoArchive
              THEN "If 'path_archive' is None, then use_file_store must be true"
              ELSE IF root.config.st = "absent" THEN "NotFound"
              ELSE IF root.config.st = "garbled" THEN "InvalidData"
              ELSE IF SameAsStored(archive, store, tree) THEN "Ok"
              ELSE "Trying to change config on reinitialisation"]_vars

\* a root with an archive configured was initialised again with a changed
\* configuration: the call failed and the root is as it was
ReinitialisationWitness ==
  /\ root.init = ChangedConfigMessage
  /\ root.outpack
  /\ root.config = ConfigFile(Core("sha256", "archive", FALSE, FALSE))
  /\ root.dirs = {"location/local", "metadata"}

====
